---- MODULE Spec2Model ----
(***************************************************************************)
(* The assessment platform's REST server (server/routes.ts) over its       *)
(* in-memory store (MemStorage).  The store is one record `storage` whose  *)
(* fields are MemStorage's nine maps and nine id counters; every route     *)
(* handler is one action.  Timestamps (createdAt, updatedAt) are the only  *)
(* record fields left out: no handler reads them.                          *)
(*                                                                         *)
(* JSON request bodies are objects of tagged values, [num |-> 3],          *)
(* [str |-> "x"], [arr |-> <<1, 2>>], [obj |-> f]; Parse checks them       *)
(* against a drizzle-zod insert schema the way z.object(...).parse does    *)
(* (types, required keys, unknown keys stripped) and yields plain values.  *)
(* A text that generatePDF sanitises (fullName, a task's name) is held as  *)
(* the sequence of its whitespace-separated words.                         *)
(***************************************************************************)
EXTENDS Integers, Sequences, FiniteSets, TLC

VARIABLES
    storage,    \* the MemStorage instance: maps and id counters
    pdfs,       \* the names of the files in the pdfs directory
    session,    \* the client's session: <<>> or <<id of the serialized user>>
    req,        \* the request being answered
    res,        \* the response to it
    nreq,       \* requests answered so far
    client      \* what the browser-side code last computed, and from what

vars == <<storage, pdfs, session, req, res, nreq, client>>

\* Requests one behaviour of Spec answers at most.
MaxRequests == 3

\* Requests one behaviour of SpecScope answers at most.
MaxScopeRequests == 4

\* Requests one behaviour of SpecAssessments answers at most.
MaxAssessmentRequests == 4

\* Requests one behaviour of SpecForms answers at most.
MaxFormRequests == 3

\* Criteria the rubric form is given or grows to at most.
MaxRubricCriteria == 3

\* Requests one behaviour of SpecAuth answers at most.
MaxAuthRequests == 4

-----------------------------------------------------------------------------
(* JavaScript objects and Maps *)

\* { ...a, ...b }
Spread(a, b) ==
    [k \in DOMAIN a \cup DOMAIN b |-> IF k \in DOMAIN b THEN b[k] ELSE a[k]]

\* The object with no keys.
Empty == [k \in {} |-> 0]

\* map.has(k), map.set(k, v), map.delete(k) on a Map held as a function.
Has(m, k) == k \in DOMAIN m
MapSet(m, k, v) == [x \in DOMAIN m \cup {k} |-> IF x = k THEN v ELSE m[x]]
MapDelete(m, k) == [x \in DOMAIN m \ {k} |-> m[x]]

RECURSIVE Ascending(_)
Ascending(S) ==
    IF S = {} THEN <<>>
    ELSE LET lo == CHOOSE x \in S : \A y \in S : x <= y
         IN  <<lo>> \o Ascending(S \ {lo})

\* Array.from(map.values()): a Map iterates in insertion order, and every
\* key is inserted once, from a counter that only grows.
Values(m) == LET ks == Ascending(DOMAIN m) IN [i \in 1..Len(ks) |-> m[ks[i]]]

\* array.includes(x)
Includes(a, x) == \E i \in 1..Len(a) : a[i] = x

\* The sum of f over the keys S: array.reduce((sum, x) => sum + x, 0).
RECURSIVE SumOf(_, _)
SumOf(f, S) ==
    IF S = {} THEN 0
    ELSE LET k == CHOOSE x \in S : TRUE IN f[k] + SumOf(f, S \ {k})

\* An absent property reads as undefined, which is falsy.
Get(o, k, undef) == IF k \in DOMAIN o THEN o[k] ELSE undef

-----------------------------------------------------------------------------
(* JSON values and the insert schemas of shared/schema.ts *)

N(i) == [num |-> i]
S(s) == [str |-> s]
A(a) == [arr |-> a]
O(f) == [obj |-> f]


roleEnum == {"admin", "assessor", "student"}
assessmentStatusEnum == {"draft", "completed"}

Column(type, required) == [type |-> type, required |-> required]

insertUserSchema ==
    [username |-> Column("text", TRUE), password |-> Column("text", TRUE),
     email |-> Column("text", TRUE), fullName |-> Column("text", TRUE),
     role |-> Column("role", TRUE)]

insertSchoolSchema ==
    [name |-> Column("text", TRUE), address |-> Column("text", FALSE)]

insertClassSchema ==
    [name |-> Column("text", TRUE), schoolId |-> Column("integer", TRUE)]

insertStudentSchema ==
    [userId |-> Column("integer", TRUE), classId |-> Column("integer", TRUE)]

insertAssessorSchema ==
    [userId |-> Column("integer", TRUE), schoolIds |-> Column("integer[]", TRUE)]

insertRubricTemplateSchema ==
    [name |-> Column("text", TRUE), description |-> Column("text", FALSE),
     criteria |-> Column("jsonb", TRUE)]

insertTaskSchema ==
    [name |-> Column("text", TRUE), description |-> Column("text", FALSE),
     rubricTemplateId |-> Column("integer", TRUE)]

insertClassTaskSchema ==
    [classId |-> Column("integer", TRUE), taskId |-> Column("integer", TRUE)]

insertAssessmentSchema ==
    [studentId |-> Column("integer", TRUE), assessorId |-> Column("integer", TRUE),
     taskId |-> Column("integer", TRUE), status |-> Column("status", FALSE),
     scores |-> Column("jsonb", TRUE), totalScore |-> Column("integer", TRUE),
     feedback |-> Column("text", FALSE), pdfPath |-> Column("text", FALSE)]

\* Whether JSON value v is of a column's type.
Accepts(type, v) ==
    CASE type = "text"      -> DOMAIN v = {"str"}
      [] type = "integer"   -> DOMAIN v = {"num"}
      [] type = "integer[]" -> DOMAIN v = {"arr"}
      [] type = "jsonb"     -> DOMAIN v = {"obj"} \/ DOMAIN v = {"arr"}
      [] type = "role"      -> DOMAIN v = {"str"} /\ v.str \in roleEnum
      [] type = "status"    -> DOMAIN v = {"str"} /\ v.str \in assessmentStatusEnum

Plain(v) ==
    CASE DOMAIN v = {"num"} -> v.num
      [] DOMAIN v = {"str"} -> v.str
      [] DOMAIN v = {"arr"} -> v.arr
      [] DOMAIN v = {"obj"} -> v.obj

\* A request body that is not there at all (undefined).
Undefined == [undefined |-> TRUE]

\* schema.parse(body), or schema.partial().parse(body): a ZodError when the
\* body is no object, a present key has the wrong type or (not partial) a
\* required key is missing; otherwise the body's known keys, unknown keys
\* stripped.
Parse(schema, partial, body) ==
    IF body = Undefined
       \/ \E k \in DOMAIN schema :
             \/ k \in DOMAIN body /\ ~Accepts(schema[k].type, body[k])
             \/ k \notin DOMAIN body /\ schema[k].required /\ ~partial
    THEN [ZodError |-> TRUE, data |-> Empty]
    ELSE [ZodError |-> FALSE,
          data |-> [k \in DOMAIN schema \cap DOMAIN body |-> Plain(body[k])]]

-----------------------------------------------------------------------------
(* MemStorage *)

\* new MemStorage(): the empty maps, the counters at 1, then seedDemoData(),
\* which gives every record the next id of its counter.
seedDemoData ==
    LET
        seedUsers ==
            [i \in 1..4 |->
                CASE i = 1 -> [id |-> 1, username |-> "admin", password |-> "admin123",
                               email |-> "admin@example.com",
                               fullName |-> <<"Admin", "User">>, role |-> "admin"]
                  [] i = 2 -> [id |-> 2, username |-> "assessor", password |-> "assessor123",
                               email |-> "assessor@example.com",
                               fullName |-> <<"John", "Smith">>, role |-> "assessor"]
                  [] i = 3 -> [id |-> 3, username |-> "student1", password |-> "student123",
                               email |-> "student1@example.com",
                               fullName |-> <<"Jordan", "Smith">>, role |-> "student"]
                  [] i = 4 -> [id |-> 4, username |-> "student2", password |-> "student123",
                               email |-> "student2@example.com",
                               fullName |-> <<"Emma", "Johnson">>, role |-> "student"]]

        seedSchools ==
            [i \in 1..2 |->
                IF i = 1
                THEN [id |-> 1, name |-> "Westside High School", address |-> "123 West Street"]
                ELSE [id |-> 2, name |-> "Eastside Academy", address |-> "456 East Avenue"]]

        seedClasses ==
            [i \in 1..3 |->
                CASE i = 1 -> [id |-> 1, name |-> "English 10A", schoolId |-> 1]
                  [] i = 2 -> [id |-> 2, name |-> "Science 11B", schoolId |-> 1]
                  [] i = 3 -> [id |-> 3, name |-> "Literature 12C", schoolId |-> 2]]

        seedAssessors == [i \in 1..1 |-> [id |-> 1, userId |-> 2, schoolIds |-> <<1, 2>>]]

        seedStudents ==
            [i \in 1..2 |->
                IF i = 1 THEN [id |-> 1, userId |-> 3, classId |-> 1]
                         ELSE [id |-> 2, userId |-> 4, classId |-> 1]]

        seedRubricTemplates ==
            [i \in 1..1 |->
                [id |-> 1, name |-> "Writing Skills Rubric",
                 description |-> "Rubric for evaluating writing skills",
                 criteria |-> <<[id |-> 1, name |-> "Content Knowledge"],
                                [id |-> 2, name |-> "Analysis & Critical Thinking"],
                                [id |-> 3, name |-> "Organization & Structure"],
                                [id |-> 4, name |-> "Language & Communication"],
                                [id |-> 5, name |-> "Creativity & Innovation"]>>]]

        seedTasks ==
            [i \in 1..2 |->
                IF i = 1
                THEN [id |-> 1, name |-> <<"Text", "Response", "Essay">>,
                      description |-> "Write a response to the provided text",
                      rubricTemplateId |-> 1]
                ELSE [id |-> 2, name |-> <<"Creative", "Writing", "Assignment">>,
                      description |-> "Create an original piece of creative writing",
                      rubricTemplateId |-> 1]]

        seedClassTasks ==
            [i \in 1..2 |->
                IF i = 1 THEN [id |-> 1, classId |-> 1, taskId |-> 1]
                         ELSE [id |-> 2, classId |-> 1, taskId |-> 2]]

        seedAssessments ==
            [i \in 1..1 |->
                [id |-> 1, studentId |-> 1, assessorId |-> 1, taskId |-> 1,
                 status |-> "completed", scores |-> <<3, 4, 5, 3, 4>>, totalScore |-> 19,
                 feedback |-> "Jordan demonstrates excellent organization and structure",
                 pdfPath |-> "/pdfs/JordanSmith_TextResponseEssay.pdf"]]
    IN
    [users |-> seedUsers, schools |-> seedSchools, classes |-> seedClasses,
     students |-> seedStudents, assessors |-> seedAssessors,
     rubricTemplates |-> seedRubricTemplates, tasks |-> seedTasks,
     classTasks |-> seedClassTasks, assessments |-> seedAssessments,
     userId |-> 5, schoolId |-> 3, classId |-> 4, studentId |-> 3,
     assessorId |-> 2, rubricTemplateId |-> 2, taskId |-> 3, classTaskId |-> 3,
     assessmentId |-> 2]

\* Every storage operation takes the store and yields the store after it
\* (st) and what it returns (ret).
Result(st, ret) == [st |-> st, ret |-> ret]

\* Array.prototype.find: the first of the matches, or undefined.
First(matches) == IF matches = <<>> THEN Undefined ELSE matches[1]

getUser(st, id) == IF Has(st.users, id) THEN st.users[id] ELSE Undefined

getUserByUsername(st, username) ==
    LET Named(u) == u.username = username IN First(SelectSeq(Values(st.users), Named))

createUser(st, user) ==
    LET id == st.userId
        newUser == Spread(user, [id |-> id])
    IN  Result([st EXCEPT !.userId = id + 1, !.users = MapSet(@, id, newUser)],
               newUser)

\* createSchool as it would be if the id were the number of schools plus one
\* instead of the counter's value.
createSchoolReusingIds(st, school) ==
    LET id == Cardinality(DOMAIN st.schools) + 1
        newSchool == Spread(school, [id |-> id])
    IN  Result([st EXCEPT !.schoolId = @ + 1, !.schools = MapSet(@, id, newSchool)],
               newSchool)

createSchool(st, school) ==
    LET id == st.schoolId
        newSchool == Spread(school, [id |-> id])
    IN  Result([st EXCEPT !.schoolId = id + 1, !.schools = MapSet(@, id, newSchool)],
               newSchool)

\* updateSchool storing the record also when the id is not in the map.
updateSchoolOrInsert(st, id, school) ==
    LET updatedSchool == IF Has(st.schools, id) THEN Spread(st.schools[id], school)
                         ELSE Spread(school, [id |-> id])
    IN  Result([st EXCEPT !.schools = MapSet(@, id, updatedSchool)], updatedSchool)

updateSchool(st, id, school) ==
    IF ~Has(st.schools, id) THEN Result(st, Undefined)
    ELSE LET updatedSchool == Spread(st.schools[id], school)
         IN  Result([st EXCEPT !.schools = MapSet(@, id, updatedSchool)],
                    updatedSchool)

\* deleteSchool cascading to the classes of the school.
deleteSchoolCascading(st, id) ==
    LET Kept(c) == c.schoolId # id
        kept == {c \in DOMAIN st.classes : Kept(st.classes[c])}
    IN  Result([st EXCEPT !.schools = MapDelete(@, id),
                          !.classes = [c \in kept |-> st.classes[c]]],
               Has(st.schools, id))

deleteSchool(st, id) ==
    Result([st EXCEPT !.schools = MapDelete(@, id)], Has(st.schools, id))

createClass(st, cls) ==
    LET id == st.classId
        newClass == Spread(cls, [id |-> id])
    IN  Result([st EXCEPT !.classId = id + 1, !.classes = MapSet(@, id, newClass)],
               newClass)

updateClass(st, id, cls) ==
    IF ~Has(st.classes, id) THEN Result(st, Undefined)
    ELSE LET updatedClass == Spread(st.classes[id], cls)
         IN  Result([st EXCEPT !.classes = MapSet(@, id, updatedClass)],
                    updatedClass)

deleteClass(st, id) ==
    Result([st EXCEPT !.classes = MapDelete(@, id)], Has(st.classes, id))

createStudent(st, student, userData) ==
    LET userWithRole == Spread(userData, [role |-> "student"])
        made == createUser(st, userWithRole)
        id == made.st.studentId
        newStudent == Spread(student, [id |-> id, userId |-> made.ret.id])
    IN  Result([made.st EXCEPT !.studentId = id + 1,
                               !.students = MapSet(@, id, newStudent)],
               newStudent)

updateStudent(st, id, student) ==
    IF ~Has(st.students, id) THEN Result(st, Undefined)
    ELSE LET updatedStudent == Spread(st.students[id], student)
         IN  Result([st EXCEPT !.students = MapSet(@, id, updatedStudent)],
                    updatedStudent)

\* deleteStudent without the cascade to the linked user.
deleteStudentKeepsUser(st, id) ==
    Result([st EXCEPT !.students = MapDelete(@, id)], Has(st.students, id))

deleteStudent(st, id) ==
    LET st1 == IF Has(st.students, id)
               THEN [st EXCEPT !.users = MapDelete(@, st.students[id].userId)]
               ELSE st
    IN  Result([st1 EXCEPT !.students = MapDelete(@, id)], Has(st.students, id))

getStudentByUserId(st, userId) ==
    LET Linked(s) == s.userId = userId IN First(SelectSeq(Values(st.students), Linked))

createAssessor(st, assessor, userData) ==
    LET userWithRole == Spread(userData, [role |-> "assessor"])
        made == createUser(st, userWithRole)
        id == made.st.assessorId
        newAssessor == Spread(assessor, [id |-> id, userId |-> made.ret.id])
    IN  Result([made.st EXCEPT !.assessorId = id + 1,
                               !.assessors = MapSet(@, id, newAssessor)],
               newAssessor)

updateAssessor(st, id, assessor) ==
    IF ~Has(st.assessors, id) THEN Result(st, Undefined)
    ELSE LET updatedAssessor == Spread(st.assessors[id], assessor)
         IN  Result([st EXCEPT !.assessors = MapSet(@, id, updatedAssessor)],
                    updatedAssessor)

deleteAssessor(st, id) ==
    LET st1 == IF Has(st.assessors, id)
               THEN [st EXCEPT !.users = MapDelete(@, st.assessors[id].userId)]
               ELSE st
    IN  Result([st1 EXCEPT !.assessors = MapDelete(@, id)], Has(st.assessors, id))

getAssessorByUserId(st, userId) ==
    LET Linked(a) == a.userId = userId IN First(SelectSeq(Values(st.assessors), Linked))

createRubricTemplate(st, template) ==
    LET id == st.rubricTemplateId
        newTemplate == Spread(template, [id |-> id])
    IN  Result([st EXCEPT !.rubricTemplateId = id + 1,
                          !.rubricTemplates = MapSet(@, id, newTemplate)],
               newTemplate)

updateRubricTemplate(st, id, template) ==
    IF ~Has(st.rubricTemplates, id) THEN Result(st, Undefined)
    ELSE LET updatedTemplate == Spread(st.rubricTemplates[id], template)
         IN  Result([st EXCEPT !.rubricTemplates = MapSet(@, id, updatedTemplate)],
                    updatedTemplate)

deleteRubricTemplate(st, id) ==
    Result([st EXCEPT !.rubricTemplates = MapDelete(@, id)],
           Has(st.rubricTemplates, id))

createTask(st, task) ==
    LET id == st.taskId
        newTask == Spread(task, [id |-> id])
    IN  Result([st EXCEPT !.taskId = id + 1, !.tasks = MapSet(@, id, newTask)],
               newTask)

updateTask(st, id, task) ==
    IF ~Has(st.tasks, id) THEN Result(st, Undefined)
    ELSE LET updatedTask == Spread(st.tasks[id], task)
         IN  Result([st EXCEPT !.tasks = MapSet(@, id, updatedTask)], updatedTask)

deleteTask(st, id) ==
    Result([st EXCEPT !.tasks = MapDelete(@, id)], Has(st.tasks, id))

createClassTask(st, classTask) ==
    LET id == st.classTaskId
        newClassTask == Spread(classTask, [id |-> id])
    IN  Result([st EXCEPT !.classTaskId = id + 1,
                          !.classTasks = MapSet(@, id, newClassTask)],
               newClassTask)

deleteClassTask(st, id) ==
    Result([st EXCEPT !.classTasks = MapDelete(@, id)], Has(st.classTasks, id))

getAssessment(st, id) ==
    IF Has(st.assessments, id) THEN st.assessments[id] ELSE Undefined

createAssessment(st, assessment) ==
    LET id == st.assessmentId
        newAssessment == Spread(assessment, [id |-> id])
    IN  Result([st EXCEPT !.assessmentId = id + 1,
                          !.assessments = MapSet(@, id, newAssessment)],
               newAssessment)

updateAssessment(st, id, assessment) ==
    IF ~Has(st.assessments, id) THEN Result(st, Undefined)
    ELSE LET updatedAssessment == Spread(st.assessments[id], assessment)
         IN  Result([st EXCEPT !.assessments = MapSet(@, id, updatedAssessment)],
                    updatedAssessment)

deleteAssessment(st, id) ==
    Result([st EXCEPT !.assessments = MapDelete(@, id)], Has(st.assessments, id))

getAssessmentWithRelations(st, id) ==
    IF ~Has(st.assessments, id) THEN Undefined
    ELSE LET assessment == st.assessments[id] IN
    IF ~Has(st.students, assessment.studentId) THEN Undefined
    ELSE LET student == st.students[assessment.studentId] IN
    IF ~Has(st.users, student.userId) THEN Undefined
    ELSE LET studentUser == st.users[student.userId] IN
    IF ~Has(st.assessors, assessment.assessorId) THEN Undefined
    ELSE LET assessor == st.assessors[assessment.assessorId] IN
    IF ~Has(st.users, assessor.userId) THEN Undefined
    ELSE LET assessorUser == st.users[assessor.userId] IN
    IF ~Has(st.tasks, assessment.taskId) THEN Undefined
    ELSE LET task == st.tasks[assessment.taskId] IN
    IF ~Has(st.rubricTemplates, task.rubricTemplateId) THEN Undefined
    ELSE LET rubricTemplate == st.rubricTemplates[task.rubricTemplateId] IN
    Spread(assessment,
           [student |-> Spread(student, [user |-> studentUser]),
            assessor |-> Spread(assessor, [user |-> assessorUser]),
            task |-> Spread(task, [rubricTemplate |-> rubricTemplate])])

getAssessments(st, filters) ==
    LET \* if (filters.x): an absent filter and the number 0 are both falsy
        Given(k) == k \in DOMAIN filters /\ filters[k] # 0
        Match(a) ==
            /\ Given("studentId") => a.studentId = filters.studentId
            /\ Given("assessorId") => a.assessorId = filters.assessorId
            /\ Given("taskId") => a.taskId = filters.taskId
            /\ "status" \in DOMAIN filters =>
                   "status" \in DOMAIN a /\ a.status = filters.status
    IN  SelectSeq(Values(st.assessments), Match)

getClassesForAssessor(st, assessorId) ==
    IF ~Has(st.assessors, assessorId) THEN <<>>
    ELSE LET InScope(cls) == Includes(st.assessors[assessorId].schoolIds, cls.schoolId)
         IN  SelectSeq(Values(st.classes), InScope)

getStudentsForClass(st, classId) ==
    LET InClass(s) == s.classId = classId
        found == SelectSeq(Values(st.students), InClass)
    IN  [i \in 1..Len(found) |->
            Spread(found[i], [user |-> getUser(st, found[i].userId)])]

getTasksForClass(st, classId) ==
    LET ForClass(ct) == ct.classId = classId /\ Has(st.tasks, ct.taskId)
        found == SelectSeq(Values(st.classTasks), ForClass)
    IN  [i \in 1..Len(found) |-> st.tasks[found[i].taskId]]

getAssessmentsForStudent(st, studentId) ==
    LET Of(a) == a.studentId = studentId IN SelectSeq(Values(st.assessments), Of)

getAssessmentsForClass(st, classId) ==
    LET studentIds == {s \in DOMAIN st.students : st.students[s].classId = classId}
        Of(a) == a.studentId \in studentIds
    IN  SelectSeq(Values(st.assessments), Of)

-----------------------------------------------------------------------------
(* server/routes.ts: PDF generation, passport, the middleware *)

RECURSIVE RemoveWhitespace(_)
\* text.replace(/\s+/g, ''), on a text held as its words
RemoveWhitespace(words) ==
    IF words = <<>> THEN "" ELSE Head(words) \o RemoveWhitespace(Tail(words))

\* generatePDF(assessmentId): throws when the assessment or one of its
\* relations is missing; otherwise writes the file and returns its path.
generatePDF(st, assessmentId) ==
    LET assessment == getAssessmentWithRelations(st, assessmentId) IN
    IF assessment = Undefined
    THEN [threw |-> TRUE, filename |-> "", path |-> ""]
    ELSE LET filename == RemoveWhitespace(assessment.student.user.fullName) \o "_"
                         \o RemoveWhitespace(assessment.task.name) \o ".pdf"
         IN  [threw |-> FALSE, filename |-> filename,
              path |-> "/pdfs/" \o filename]

\* LocalStrategy's verify callback: the user to log in, or Undefined (false).
LocalStrategy(st, username, password) ==
    LET user == getUserByUsername(st, username) IN
    IF user = Undefined THEN Undefined
    ELSE IF user.password # password THEN Undefined
    ELSE user

\* req.user: deserializeUser looks the session's user id up in the store; a
\* session whose user is gone is not authenticated.
reqUser(st, sess) == IF sess = <<>> THEN Undefined ELSE getUser(st, sess[1])

isAuthenticated(st, sess) == reqUser(st, sess) # Undefined

\* isAdmin letting every authenticated user through.
isAdminAnyUser(st, sess) == isAuthenticated(st, sess)

isAdmin(st, sess) ==
    isAuthenticated(st, sess) /\ reqUser(st, sess).role = "admin"

isAssessor(st, sess) ==
    isAuthenticated(st, sess) /\ reqUser(st, sess).role \in {"assessor", "admin"}

\* What a handler does: the store it leaves, the files it wrote, its response.
Reply(st, status, body) ==
    [st |-> st, written |-> {}, res |-> [status |-> status, body |-> body]]

Message(text) == [message |-> text]

Unauthorized(st) == Reply(st, 401, Message("Unauthorized"))
Forbidden(st) == Reply(st, 403, Message("Forbidden"))

-----------------------------------------------------------------------------
(* server/routes.ts: the route handlers *)

GetAuthStatus(st, sess) ==
    IF isAuthenticated(st, sess)
    THEN Reply(st, 200, [authenticated |-> TRUE, user |-> reqUser(st, sess)])
    ELSE Reply(st, 200, [authenticated |-> FALSE])

GetUser(st, sess) ==
    IF ~isAuthenticated(st, sess) THEN Unauthorized(st)
    ELSE LET user == reqUser(st, sess)
             assessor == getAssessorByUserId(st, user.id)
             student == getStudentByUserId(st, user.id)
             cls == IF Has(st.classes, student.classId)
                    THEN st.classes[student.classId] ELSE Undefined
             withClass == IF cls = Undefined THEN Empty
                          ELSE IF Has(st.schools, cls.schoolId)
                          THEN [class |-> cls, school |-> st.schools[cls.schoolId]]
                          ELSE [class |-> cls]
             extendedUser ==
                 IF user.role = "assessor" /\ assessor # Undefined
                 THEN Spread(user, [assessorId |-> assessor.id,
                                    schoolIds |-> assessor.schoolIds])
                 ELSE IF user.role = "student" /\ student # Undefined
                 THEN Spread(Spread(user, [studentId |-> student.id,
                                           classId |-> student.classId]),
                             withClass)
                 ELSE user
         IN  Reply(st, 200, extendedUser)

PostSchools(st, sess, body) ==
    IF ~isAdmin(st, sess) THEN Forbidden(st)
    ELSE LET schoolData == Parse(insertSchoolSchema, FALSE, body) IN
    IF schoolData.ZodError THEN Reply(st, 400, Message("Invalid school data"))
    ELSE LET made == createSchool(st, schoolData.data)
         IN  Reply(made.st, 201, made.ret)

PutSchool(st, sess, id, body) ==
    IF ~isAdmin(st, sess) THEN Forbidden(st)
    ELSE LET schoolData == Parse(insertSchoolSchema, TRUE, body) IN
    IF schoolData.ZodError THEN Reply(st, 400, Message("Invalid school data"))
    ELSE LET done == updateSchool(st, id, schoolData.data) IN
    IF done.ret = Undefined THEN Reply(st, 404, Message("School not found"))
    ELSE Reply(done.st, 200, done.ret)

DeleteSchool(st, sess, id) ==
    IF ~isAdmin(st, sess) THEN Forbidden(st)
    ELSE LET done == deleteSchool(st, id) IN
    IF ~done.ret THEN Reply(done.st, 404, Message("School not found"))
    ELSE Reply(done.st, 204, Empty)

PostClasses(st, sess, body) ==
    IF ~isAdmin(st, sess) THEN Forbidden(st)
    ELSE LET classData == Parse(insertClassSchema, FALSE, body) IN
    IF classData.ZodError THEN Reply(st, 400, Message("Invalid class data"))
    ELSE LET made == createClass(st, classData.data)
         IN  Reply(made.st, 201, made.ret)

PutClass(st, sess, id, body) ==
    IF ~isAdmin(st, sess) THEN Forbidden(st)
    ELSE LET classData == Parse(insertClassSchema, TRUE, body) IN
    IF classData.ZodError THEN Reply(st, 400, Message("Invalid class data"))
    ELSE LET done == updateClass(st, id, classData.data) IN
    IF done.ret = Undefined THEN Reply(st, 404, Message("Class not found"))
    ELSE Reply(done.st, 200, done.ret)

DeleteClass(st, sess, id) ==
    IF ~isAdmin(st, sess) THEN Forbidden(st)
    ELSE LET done == deleteClass(st, id) IN
    IF ~done.ret THEN Reply(done.st, 404, Message("Class not found"))
    ELSE Reply(done.st, 204, Empty)

\* const { student, user } = req.body
Property(body, k) ==
    IF body = Undefined \/ k \notin DOMAIN body THEN Undefined ELSE body[k]

\* POST /api/students creating the user before the student part is parsed.
PostStudentsUserFirst(st, sess, body) ==
    IF ~isAdmin(st, sess) THEN Forbidden(st)
    ELSE LET userData == Parse(insertUserSchema, FALSE, Property(body, "user")) IN
    IF userData.ZodError THEN Reply(st, 400, Message("Invalid student data"))
    ELSE LET user == createUser(st, Spread(userData.data, [role |-> "student"]))
             studentData == Parse(insertStudentSchema, FALSE, Property(body, "student"))
         IN
    IF studentData.ZodError THEN Reply(user.st, 400, Message("Invalid student data"))
    ELSE LET made == createStudent(st, studentData.data, userData.data)
         IN  Reply(made.st, 201,
                   Spread(made.ret, [user |-> getUser(made.st, made.ret.userId)]))

PostStudents(st, sess, body) ==
    IF ~isAdmin(st, sess) THEN Forbidden(st)
    ELSE LET studentData == Parse(insertStudentSchema, FALSE, Property(body, "student"))
             userData == Parse(insertUserSchema, FALSE, Property(body, "user"))
         IN
    IF studentData.ZodError \/ userData.ZodError
    THEN Reply(st, 400, Message("Invalid student data"))
    ELSE LET made == createStudent(st, studentData.data, userData.data)
         IN  Reply(made.st, 201,
                   Spread(made.ret, [user |-> getUser(made.st, made.ret.userId)]))

PutStudent(st, sess, id, body) ==
    IF ~isAdmin(st, sess) THEN Forbidden(st)
    ELSE LET studentData == Parse(insertStudentSchema, TRUE, body) IN
    IF studentData.ZodError THEN Reply(st, 400, Message("Invalid student data"))
    ELSE LET done == updateStudent(st, id, studentData.data) IN
    IF done.ret = Undefined THEN Reply(st, 404, Message("Student not found"))
    ELSE Reply(done.st, 200,
               Spread(done.ret, [user |-> getUser(done.st, done.ret.userId)]))

DeleteStudent(st, sess, id) ==
    IF ~isAdmin(st, sess) THEN Forbidden(st)
    ELSE LET done == deleteStudent(st, id) IN
    IF ~done.ret THEN Reply(done.st, 404, Message("Student not found"))
    ELSE Reply(done.st, 204, Empty)

PostAssessors(st, sess, body) ==
    IF ~isAdmin(st, sess) THEN Forbidden(st)
    ELSE LET assessorData == Parse(insertAssessorSchema, FALSE, Property(body, "assessor"))
             userData == Parse(insertUserSchema, FALSE, Property(body, "user"))
         IN
    IF assessorData.ZodError \/ userData.ZodError
    THEN Reply(st, 400, Message("Invalid assessor data"))
    ELSE LET made == createAssessor(st, assessorData.data, userData.data)
         IN  Reply(made.st, 201,
                   Spread(made.ret, [user |-> getUser(made.st, made.ret.userId)]))

PutAssessor(st, sess, id, body) ==
    IF ~isAdmin(st, sess) THEN Forbidden(st)
    ELSE LET assessorData == Parse(insertAssessorSchema, TRUE, body) IN
    IF assessorData.ZodError THEN Reply(st, 400, Message("Invalid assessor data"))
    ELSE LET done == updateAssessor(st, id, assessorData.data) IN
    IF done.ret = Undefined THEN Reply(st, 404, Message("Assessor not found"))
    ELSE Reply(done.st, 200,
               Spread(done.ret, [user |-> getUser(done.st, done.ret.userId)]))

DeleteAssessor(st, sess, id) ==
    IF ~isAdmin(st, sess) THEN Forbidden(st)
    ELSE LET done == deleteAssessor(st, id) IN
    IF ~done.ret THEN Reply(done.st, 404, Message("Assessor not found"))
    ELSE Reply(done.st, 204, Empty)

PostRubricTemplates(st, sess, body) ==
    IF ~isAdmin(st, sess) THEN Forbidden(st)
    ELSE LET templateData == Parse(insertRubricTemplateSchema, FALSE, body) IN
    IF templateData.ZodError
    THEN Reply(st, 400, Message("Invalid rubric template data"))
    ELSE LET made == createRubricTemplate(st, templateData.data)
         IN  Reply(made.st, 201, made.ret)

PutRubricTemplate(st, sess, id, body) ==
    IF ~isAdmin(st, sess) THEN Forbidden(st)
    ELSE LET templateData == Parse(insertRubricTemplateSchema, TRUE, body) IN
    IF templateData.ZodError
    THEN Reply(st, 400, Message("Invalid rubric template data"))
    ELSE LET done == updateRubricTemplate(st, id, templateData.data) IN
    IF done.ret = Undefined
    THEN Reply(st, 404, Message("Rubric template not found"))
    ELSE Reply(done.st, 200, done.ret)

DeleteRubricTemplate(st, sess, id) ==
    IF ~isAdmin(st, sess) THEN Forbidden(st)
    ELSE LET done == deleteRubricTemplate(st, id) IN
    IF ~done.ret THEN Reply(done.st, 404, Message("Rubric template not found"))
    ELSE Reply(done.st, 204, Empty)

PostTasks(st, sess, body) ==
    IF ~isAdmin(st, sess) THEN Forbidden(st)
    ELSE LET taskData == Parse(insertTaskSchema, FALSE, body) IN
    IF taskData.ZodError THEN Reply(st, 400, Message("Invalid task data"))
    ELSE LET made == createTask(st, taskData.data)
         IN  Reply(made.st, 201, made.ret)

PutTask(st, sess, id, body) ==
    IF ~isAdmin(st, sess) THEN Forbidden(st)
    ELSE LET taskData == Parse(insertTaskSchema, TRUE, body) IN
    IF taskData.ZodError THEN Reply(st, 400, Message("Invalid task data"))
    ELSE LET done == updateTask(st, id, taskData.data) IN
    IF done.ret = Undefined THEN Reply(st, 404, Message("Task not found"))
    ELSE Reply(done.st, 200, done.ret)

DeleteTask(st, sess, id) ==
    IF ~isAdmin(st, sess) THEN Forbidden(st)
    ELSE LET done == deleteTask(st, id) IN
    IF ~done.ret THEN Reply(done.st, 404, Message("Task not found"))
    ELSE Reply(done.st, 204, Empty)

PostClassTasks(st, sess, body) ==
    IF ~isAdmin(st, sess) THEN Forbidden(st)
    ELSE LET classTaskData == Parse(insertClassTaskSchema, FALSE, body) IN
    IF classTaskData.ZodError
    THEN Reply(st, 400, Message("Invalid class task data"))
    ELSE LET made == createClassTask(st, classTaskData.data)
         IN  Reply(made.st, 201, made.ret)

DeleteClassTask(st, sess, id) ==
    IF ~isAdmin(st, sess) THEN Forbidden(st)
    ELSE LET done == deleteClassTask(st, id) IN
    IF ~done.ret THEN Reply(done.st, 404, Message("Class task not found"))
    ELSE Reply(done.st, 204, Empty)

\* Each assessment of a list with its relations; those whose relations are
\* incomplete are dropped (filter(a => a !== undefined)).
WithRelations(st, list) ==
    LET full == [i \in 1..Len(list) |-> getAssessmentWithRelations(st, list[i].id)]
        Defined(a) == a # Undefined
    IN  SelectSeq(full, Defined)

\* The filters GET /api/assessments builds from the query string: a parameter
\* is a number parsed from the string sent (so ?studentId=0 sets the filter
\* to 0) or, for status, the string itself.
GetAssessments(st, sess, query) ==
    IF ~isAuthenticated(st, sess) THEN Unauthorized(st)
    ELSE LET filters ==
                 [k \in DOMAIN query \cap {"studentId", "assessorId", "taskId", "status"}
                    |-> query[k]]
         IN  Reply(st, 200, WithRelations(st, getAssessments(st, filters)))

GetAssessment(st, sess, id) ==
    IF ~isAuthenticated(st, sess) THEN Unauthorized(st)
    ELSE LET assessment == getAssessmentWithRelations(st, id) IN
    IF assessment = Undefined THEN Reply(st, 404, Message("Assessment not found"))
    ELSE Reply(st, 200, assessment)

\* assessment.status, assessment.pdfPath: undefined when the key is absent
StatusOf(a) == Get(a, "status", "")
PdfPathOf(a) == Get(a, "pdfPath", "")

\* The tail both assessment writers share: generate the PDF of assessment id
\* in store st, store its path, and answer with the assessment's relations.
\* generatePDF's exception is caught by the handler's catch: 500, with the
\* store as the earlier statements left it.
WithPdf(st, id, generate, okStatus, failure) ==
    LET pdf == generatePDF(st, id) IN
    IF generate /\ pdf.threw THEN Reply(st, 500, Message(failure))
    ELSE LET st2 == IF generate
                    THEN updateAssessment(st, id, [pdfPath |-> pdf.path]).st
                    ELSE st
         IN  [st |-> st2,
              written |-> IF generate THEN {pdf.filename} ELSE {},
              res |-> [status |-> okStatus,
                       body |-> getAssessmentWithRelations(st2, id)]]

PostAssessments(st, sess, body) ==
    IF ~isAssessor(st, sess) THEN Forbidden(st)
    ELSE LET assessmentData == Parse(insertAssessmentSchema, FALSE, body) IN
    IF assessmentData.ZodError
    THEN Reply(st, 400, Message("Invalid assessment data"))
    ELSE LET made == createAssessment(st, assessmentData.data)
         IN  WithPdf(made.st, made.ret.id, StatusOf(made.ret) = "completed",
                     201, "Error creating assessment")

\* PUT /api/assessments/:id as it would be if every update that leaves the
\* assessment completed generated the PDF again.
PutAssessmentAlwaysRegenerating(st, sess, id, body) ==
    IF ~isAssessor(st, sess) THEN Forbidden(st)
    ELSE LET assessmentData == Parse(insertAssessmentSchema, TRUE, body) IN
    IF assessmentData.ZodError
    THEN Reply(st, 400, Message("Invalid assessment data"))
    ELSE LET currentAssessment == getAssessment(st, id) IN
    IF currentAssessment = Undefined
    THEN Reply(st, 404, Message("Assessment not found"))
    ELSE LET done == updateAssessment(st, id, assessmentData.data)
         IN  WithPdf(done.st, id, StatusOf(done.ret) = "completed",
                     200, "Error updating assessment")

PutAssessment(st, sess, id, body) ==
    IF ~isAssessor(st, sess) THEN Forbidden(st)
    ELSE LET assessmentData == Parse(insertAssessmentSchema, TRUE, body) IN
    IF assessmentData.ZodError
    THEN Reply(st, 400, Message("Invalid assessment data"))
    ELSE LET currentAssessment == getAssessment(st, id) IN
    IF currentAssessment = Undefined
    THEN Reply(st, 404, Message("Assessment not found"))
    ELSE LET done == updateAssessment(st, id, assessmentData.data)
         IN  WithPdf(done.st, id,
                     /\ StatusOf(done.ret) = "completed"
                     /\ \/ StatusOf(currentAssessment) # "completed"
                        \/ PdfPathOf(currentAssessment) = "",
                     200, "Error updating assessment")

DeleteAssessment(st, sess, id) ==
    IF ~isAssessor(st, sess) THEN Forbidden(st)
    ELSE LET done == deleteAssessment(st, id) IN
    IF ~done.ret THEN Reply(done.st, 404, Message("Assessment not found"))
    ELSE Reply(done.st, 204, Empty)

\* req.user is the stored User record: it has no assessorId property, and
\* undefined === <a number> is false.
GetAssessorClasses(st, sess, id) ==
    IF ~isAuthenticated(st, sess) THEN Unauthorized(st)
    ELSE LET user == reqUser(st, sess) IN
    IF \/ user.role = "admin"
       \/ user.role = "assessor" /\ "assessorId" \in DOMAIN user /\ user.assessorId = id
    THEN Reply(st, 200, getClassesForAssessor(st, id))
    ELSE Reply(st, 403, Message("Forbidden - You do not have access to this assessor's classes"))

GetClassStudents(st, sess, id) ==
    IF ~isAssessor(st, sess) THEN Forbidden(st)
    ELSE Reply(st, 200, getStudentsForClass(st, id))

GetClassTasks(st, sess, id) ==
    IF ~isAssessor(st, sess) THEN Forbidden(st)
    ELSE Reply(st, 200, getTasksForClass(st, id))

GetClassAssessments(st, sess, id) ==
    IF ~isAssessor(st, sess) THEN Forbidden(st)
    ELSE Reply(st, 200, WithRelations(st, getAssessmentsForClass(st, id)))

GetStudentAssessments(st, sess, id) ==
    IF ~isAuthenticated(st, sess) THEN Unauthorized(st)
    ELSE Reply(st, 200, WithRelations(st, getAssessmentsForStudent(st, id)))

-----------------------------------------------------------------------------
(* The requests the clients send *)

\* The ids a request names in its path, given the counter that issues them:
\* the first id issued and the next one, which no record has yet.
Targets(counter) == {1, counter}

\* The ids a request body refers to: the last id issued and the next one.
Refs(counter) == {counter - 1, counter}

Credentials ==
    {[username |-> "admin", password |-> "admin123"],
     [username |-> "assessor", password |-> "assessor123"],
     [username |-> "student1", password |-> "student123"],
     [username |-> "student2", password |-> "student123"],
     [username |-> "student3", password |-> "student123"],
     [username |-> "student1", password |-> "admin123"]}

\* The user part of a create request: a new username, the username of the
\* seeded student1, and what the admin forms send (no role).
UserBodies ==
    {[username |-> S("student3"), password |-> S("student123"),
      email |-> S("student3@example.com"), fullName |-> S(<<"Ava", "Brown">>),
      role |-> S("student")],
     [username |-> S("student1"), password |-> S("student123"),
      email |-> S("jordan@example.com"), fullName |-> S(<<"Jordan", "Smith">>),
      role |-> S("admin")],
     [username |-> S("student3"), password |-> S("student123"),
      email |-> S("student3@example.com"), fullName |-> S(<<"Ava", "Brown">>)]}

SchoolBodies ==
    {[name |-> S("Northside College"), id |-> N(1)],
     [address |-> S("789 North Road")]}

SchoolUpdates == {[name |-> S("Northside College")], [name |-> N(7)]}

ClassBodies(st) ==
    {[name |-> S("History 9D"), schoolId |-> N(k)] : k \in Refs(st.schoolId)}
    \cup {[name |-> S("History 9D")]}

ClassUpdates(st) ==
    {[schoolId |-> N(k)] : k \in Refs(st.schoolId)} \cup {[schoolId |-> S("2")]}

StudentBodies(st) ==
    {[userId |-> N(1), classId |-> N(k)] : k \in Refs(st.classId)}
    \cup {[classId |-> N(1)]}

StudentUpdates(st) ==
    {[classId |-> N(k)] : k \in Refs(st.classId)}
    \cup {[userId |-> N(k)] : k \in Refs(st.userId)}
    \cup {[classId |-> S("2")]}

AssessorBodies ==
    {[userId |-> N(1), schoolIds |-> A(<<2>>)], [schoolIds |-> A(<<2>>)]}

AssessorUpdates(st) ==
    {[schoolIds |-> A(<<2>>)], [schoolIds |-> N(2)]}
    \cup {[userId |-> N(k)] : k \in Refs(st.userId)}

RubricTemplateBodies ==
    {[name |-> S("Speaking Rubric"),
      criteria |-> A(<<[id |-> 1, name |-> "Fluency"]>>)],
     [name |-> S("Speaking Rubric")]}

RubricTemplateUpdates == {[name |-> S("Speaking Rubric")], [criteria |-> S("none")]}

TaskBodies(st) ==
    {[name |-> S(<<"Oral", "Presentation">>), rubricTemplateId |-> N(k)] :
        k \in Refs(st.rubricTemplateId)}
    \cup {[name |-> S(<<"Oral", "Presentation">>)]}

TaskUpdates(st) ==
    {[rubricTemplateId |-> N(st.rubricTemplateId)],
     [name |-> S(<<"Oral", "Presentation">>)], [rubricTemplateId |-> S("1")]}

ClassTaskBodies(st) ==
    {[classId |-> N(k), taskId |-> N(2)] : k \in Refs(st.classId)}
    \cup {[classId |-> N(2)]}

AssessmentBodies(st) ==
    {[studentId |-> N(s), assessorId |-> N(1), taskId |-> N(2),
      status |-> S("completed"), scores |-> O(<<3, 4>>), totalScore |-> N(7)] :
        s \in Refs(st.studentId)}
    \cup {[studentId |-> N(2), assessorId |-> N(1), taskId |-> N(2),
           status |-> S("draft"), scores |-> O(<<3, 4>>), totalScore |-> N(7)],
          [studentId |-> N(2), assessorId |-> N(1), taskId |-> N(2),
           scores |-> O(<<3, 4>>), totalScore |-> N(9)],
          [studentId |-> N(2), assessorId |-> N(1), taskId |-> N(2),
           status |-> S("completed"), totalScore |-> N(7)]}

AssessmentUpdates(st) ==
    {[status |-> S(status)] : status \in assessmentStatusEnum}
    \cup {[scores |-> O(<<5, 5, 5, 5, 5>>)],
          [pdfPath |-> S("")],
          [studentId |-> N(st.studentId)],
          [status |-> S("done")]}

AssessmentQueries == {Empty, [studentId |-> 2], [status |-> "completed"]}

Request(method, route, params, query, body) ==
    [method |-> method, route |-> route, params |-> params, query |-> query,
     body |-> body]


\* One request answered by a handler that leaves the session alone.
Serve(max, r, out) ==
    /\ nreq < max
    /\ req' = r
    /\ res' = out.res
    /\ storage' = out.st
    /\ pdfs' = pdfs \cup out.written
    /\ nreq' = nreq + 1
    /\ UNCHANGED <<session, client>>

-----------------------------------------------------------------------------
(* The actions: one per route *)

\* passport.authenticate('local'): 401 when the strategy fails, otherwise
\* req.logIn serializes the user's id into the session.
OnLogin(max) ==
    \E c \in Credentials :
        LET user == LocalStrategy(storage, c.username, c.password) IN
        /\ nreq < max
        /\ req' = Request("POST", "/api/auth/login", Empty, Empty,
                          [username |-> S(c.username), password |-> S(c.password)])
        /\ IF user = Undefined
           THEN /\ res' = [status |-> 401, body |-> Message("Unauthorized")]
                /\ UNCHANGED session
           ELSE /\ res' = [status |-> 200, body |-> [user |-> user]]
                /\ session' = <<user.id>>
        /\ nreq' = nreq + 1
        /\ UNCHANGED <<storage, pdfs, client>>

OnLogout(max) ==
    /\ nreq < max
    /\ req' = Request("POST", "/api/auth/logout", Empty, Empty, Empty)
    /\ res' = [status |-> 200, body |-> Message("Logged out successfully")]
    /\ session' = <<>>
    /\ nreq' = nreq + 1
    /\ UNCHANGED <<storage, pdfs, client>>

OnGetAuthStatus(max) ==
    Serve(max, Request("GET", "/api/auth/status", Empty, Empty, Empty),
          GetAuthStatus(storage, session))

OnGetUser(max) ==
    Serve(max, Request("GET", "/api/user", Empty, Empty, Empty),
          GetUser(storage, session))

OnPostSchools(max) ==
    \E body \in SchoolBodies :
        Serve(max, Request("POST", "/api/schools", Empty, Empty, body),
              PostSchools(storage, session, body))

OnPutSchool(max) ==
    \E id \in Targets(storage.schoolId), body \in SchoolUpdates :
        Serve(max, Request("PUT", "/api/schools/:id", [id |-> id], Empty, body),
              PutSchool(storage, session, id, body))

OnDeleteSchool(max) ==
    \E id \in Targets(storage.schoolId) :
        Serve(max, Request("DELETE", "/api/schools/:id", [id |-> id], Empty, Empty),
              DeleteSchool(storage, session, id))

OnPostClasses(max) ==
    \E body \in ClassBodies(storage) :
        Serve(max, Request("POST", "/api/classes", Empty, Empty, body),
              PostClasses(storage, session, body))

OnPutClass(max) ==
    \E id \in Targets(storage.classId), body \in ClassUpdates(storage) :
        Serve(max, Request("PUT", "/api/classes/:id", [id |-> id], Empty, body),
              PutClass(storage, session, id, body))

OnDeleteClass(max) ==
    \E id \in Targets(storage.classId) :
        Serve(max, Request("DELETE", "/api/classes/:id", [id |-> id], Empty, Empty),
              DeleteClass(storage, session, id))

OnPostStudents(max) ==
    \E student \in StudentBodies(storage), user \in UserBodies :
        LET body == [student |-> student, user |-> user] IN
        Serve(max, Request("POST", "/api/students", Empty, Empty, body),
              PostStudents(storage, session, body))

OnPutStudent(max) ==
    \E id \in Targets(storage.studentId), body \in StudentUpdates(storage) :
        Serve(max, Request("PUT", "/api/students/:id", [id |-> id], Empty, body),
              PutStudent(storage, session, id, body))

OnDeleteStudent(max) ==
    \E id \in Targets(storage.studentId) :
        Serve(max, Request("DELETE", "/api/students/:id", [id |-> id], Empty, Empty),
              DeleteStudent(storage, session, id))

OnPostAssessors(max) ==
    \E assessor \in AssessorBodies, user \in UserBodies :
        LET body == [assessor |-> assessor, user |-> user] IN
        Serve(max, Request("POST", "/api/assessors", Empty, Empty, body),
              PostAssessors(storage, session, body))

OnPutAssessor(max) ==
    \E id \in Targets(storage.assessorId), body \in AssessorUpdates(storage) :
        Serve(max, Request("PUT", "/api/assessors/:id", [id |-> id], Empty, body),
              PutAssessor(storage, session, id, body))

OnDeleteAssessor(max) ==
    \E id \in Targets(storage.assessorId) :
        Serve(max, Request("DELETE", "/api/assessors/:id", [id |-> id], Empty, Empty),
              DeleteAssessor(storage, session, id))

OnPostRubricTemplates(max) ==
    \E body \in RubricTemplateBodies :
        Serve(max, Request("POST", "/api/rubric-templates", Empty, Empty, body),
              PostRubricTemplates(storage, session, body))

OnPutRubricTemplate(max) ==
    \E id \in Targets(storage.rubricTemplateId), body \in RubricTemplateUpdates :
        Serve(max, Request("PUT", "/api/rubric-templates/:id", [id |-> id], Empty, body),
              PutRubricTemplate(storage, session, id, body))

OnDeleteRubricTemplate(max) ==
    \E id \in Targets(storage.rubricTemplateId) :
        Serve(max, Request("DELETE", "/api/rubric-templates/:id", [id |-> id], Empty, Empty),
              DeleteRubricTemplate(storage, session, id))

OnPostTasks(max) ==
    \E body \in TaskBodies(storage) :
        Serve(max, Request("POST", "/api/tasks", Empty, Empty, body),
              PostTasks(storage, session, body))

OnPutTask(max) ==
    \E id \in Targets(storage.taskId), body \in TaskUpdates(storage) :
        Serve(max, Request("PUT", "/api/tasks/:id", [id |-> id], Empty, body),
              PutTask(storage, session, id, body))

OnDeleteTask(max) ==
    \E id \in Targets(storage.taskId) :
        Serve(max, Request("DELETE", "/api/tasks/:id", [id |-> id], Empty, Empty),
              DeleteTask(storage, session, id))

OnPostClassTasks(max) ==
    \E body \in ClassTaskBodies(storage) :
        Serve(max, Request("POST", "/api/class-tasks", Empty, Empty, body),
              PostClassTasks(storage, session, body))

OnDeleteClassTask(max) ==
    \E id \in Targets(storage.classTaskId) :
        Serve(max, Request("DELETE", "/api/class-tasks/:id", [id |-> id], Empty, Empty),
              DeleteClassTask(storage, session, id))

OnGetAssessments(max) ==
    \E query \in AssessmentQueries :
        Serve(max, Request("GET", "/api/assessments", Empty, query, Empty),
              GetAssessments(storage, session, query))

OnGetAssessment(max) ==
    \E id \in Targets(storage.assessmentId) :
        Serve(max, Request("GET", "/api/assessments/:id", [id |-> id], Empty, Empty),
              GetAssessment(storage, session, id))

OnPostAssessments(max) ==
    \E body \in AssessmentBodies(storage) :
        Serve(max, Request("POST", "/api/assessments", Empty, Empty, body),
              PostAssessments(storage, session, body))

OnPutAssessment(max) ==
    \E id \in Targets(storage.assessmentId), body \in AssessmentUpdates(storage) :
        Serve(max, Request("PUT", "/api/assessments/:id", [id |-> id], Empty, body),
              PutAssessment(storage, session, id, body))

OnDeleteAssessment(max) ==
    \E id \in Targets(storage.assessmentId) :
        Serve(max, Request("DELETE", "/api/assessments/:id", [id |-> id], Empty, Empty),
              DeleteAssessment(storage, session, id))

OnGetAssessorClasses(max) ==
    \E id \in Targets(storage.assessorId) :
        Serve(max, Request("GET", "/api/assessors/:id/classes", [id |-> id], Empty, Empty),
              GetAssessorClasses(storage, session, id))

OnGetClassStudents(max) ==
    \E id \in Targets(storage.classId) :
        Serve(max, Request("GET", "/api/classes/:id/students", [id |-> id], Empty, Empty),
              GetClassStudents(storage, session, id))

OnGetClassTasks(max) ==
    \E id \in Targets(storage.classId) :
        Serve(max, Request("GET", "/api/classes/:id/tasks", [id |-> id], Empty, Empty),
              GetClassTasks(storage, session, id))

OnGetClassAssessments(max) ==
    \E id \in Targets(storage.classId) :
        Serve(max, Request("GET", "/api/classes/:id/assessments", [id |-> id], Empty, Empty),
              GetClassAssessments(storage, session, id))

OnGetStudentAssessments(max) ==
    \E id \in Targets(storage.studentId) :
        Serve(max, Request("GET", "/api/students/:id/assessments", [id |-> id], Empty, Empty),
              GetStudentAssessments(storage, session, id))

-----------------------------------------------------------------------------
(* The specifications *)

\* The server as registerRoutes leaves it: the seeded store, no session, no
\* request answered.  The pdfs directory exists and is empty.
Init ==
    /\ storage = seedDemoData
    /\ pdfs = {}
    /\ session = <<>>
    /\ req = Request("", "", Empty, Empty, Empty)
    /\ res = [status |-> 0, body |-> Empty]
    /\ nreq = 0
    /\ client = [fn |-> ""]

Next ==
    \/ OnLogin(MaxRequests)
    \/ OnLogout(MaxRequests)
    \/ OnGetAuthStatus(MaxRequests)
    \/ OnGetUser(MaxRequests)
    \/ OnPostSchools(MaxRequests)
    \/ OnPutSchool(MaxRequests)
    \/ OnDeleteSchool(MaxRequests)
    \/ OnPostClasses(MaxRequests)
    \/ OnPutClass(MaxRequests)
    \/ OnDeleteClass(MaxRequests)
    \/ OnPostStudents(MaxRequests)
    \/ OnPutStudent(MaxRequests)
    \/ OnDeleteStudent(MaxRequests)
    \/ OnPostAssessors(MaxRequests)
    \/ OnPutAssessor(MaxRequests)
    \/ OnDeleteAssessor(MaxRequests)
    \/ OnPostRubricTemplates(MaxRequests)
    \/ OnPutRubricTemplate(MaxRequests)
    \/ OnDeleteRubricTemplate(MaxRequests)
    \/ OnPostTasks(MaxRequests)
    \/ OnPutTask(MaxRequests)
    \/ OnDeleteTask(MaxRequests)
    \/ OnPostClassTasks(MaxRequests)
    \/ OnDeleteClassTask(MaxRequests)
    \/ OnGetAssessments(MaxRequests)
    \/ OnGetAssessment(MaxRequests)
    \/ OnPostAssessments(MaxRequests)
    \/ OnPutAssessment(MaxRequests)
    \/ OnDeleteAssessment(MaxRequests)
    \/ OnGetAssessorClasses(MaxRequests)
    \/ OnGetClassStudents(MaxRequests)
    \/ OnGetClassTasks(MaxRequests)
    \/ OnGetClassAssessments(MaxRequests)
    \/ OnGetStudentAssessments(MaxRequests)

Spec == Init /\ [][Next]_vars

\* The admin's management of assessors and an assessor's reads of a class:
\* the same server, with only these routes called.
NextScope ==
    \/ OnLogin(MaxScopeRequests)
    \/ OnGetUser(MaxScopeRequests)
    \/ OnPutAssessor(MaxScopeRequests)
    \/ OnGetClassStudents(MaxScopeRequests)
    \/ OnGetClassTasks(MaxScopeRequests)
    \/ OnGetClassAssessments(MaxScopeRequests)

SpecScope == Init /\ [][NextScope]_vars

\* An assessor's writes of assessments: the same server, with only the login
\* and the three writing assessment routes called.
NextAssessments ==
    \/ OnLogin(MaxAssessmentRequests)
    \/ OnPostAssessments(MaxAssessmentRequests)
    \/ OnPutAssessment(MaxAssessmentRequests)
    \/ OnDeleteAssessment(MaxAssessmentRequests)

SpecAssessments == Init /\ [][NextAssessments]_vars

-----------------------------------------------------------------------------
(* The browser side: lib/utils/format-data.ts, lib/pdf-generator.ts and the
   pages.  Scores and totals are held in hundredths: 4.5 is 450. *)

\* Scores the label functions are called with run up to this (5.00).
MaxScore == 500
\* Totals and maximum scores calculateScorePercentage is called with.
MaxTotal == 12
\* Length of the assessment lists the reports are made from.
MaxRecords == 3
\* Length of the criteria lists generatePDFPreview is called with.
MaxCriteria == 2

\* A JavaScript number that need not be finite.
Finite(n) == [kind |-> "finite", val |-> n]
NaN == [kind |-> "NaN", val |-> 0]
Infinite(sign) == [kind |-> IF sign > 0 THEN "Infinity" ELSE "-Infinity", val |-> 0]

\* Math.round((a / b) * 100) for finite a and b >= 0: 0 / 0 is NaN, a / 0 is
\* infinite, and Math.round takes a half upwards.
RoundedPercent(a, b) ==
    IF b = 0 THEN (IF a = 0 THEN NaN ELSE Infinite(a))
    ELSE Finite((200 * a + b) \div (2 * b))

\* value || 0
OrZero(n) == IF n.kind = "NaN" \/ (n.kind = "finite" /\ n.val = 0) THEN Finite(0) ELSE n

\* formatScoreLevel with the boundaries counted to the lower label.
formatScoreLevelInclusive(score) ==
    IF score <= 200 THEN "Needs Improvement"
    ELSE IF score <= 300 THEN "Developing"
    ELSE IF score <= 400 THEN "Proficient"
    ELSE IF score <= 450 THEN "Advanced"
    ELSE "Exemplary"

formatScoreLevel(score) ==
    IF score < 200 THEN "Needs Improvement"
    ELSE IF score < 300 THEN "Developing"
    ELSE IF score < 400 THEN "Proficient"
    ELSE IF score < 450 THEN "Advanced"
    ELSE "Exemplary"

\* CriterionFeedback's own getScoreText
getScoreText(score) ==
    IF score < 200 THEN "Needs Improvement"
    ELSE IF score < 300 THEN "Developing"
    ELSE IF score < 400 THEN "Proficient"
    ELSE IF score < 450 THEN "Advanced"
    ELSE "Exemplary"

\* The label generatePDFPreview works out for one criterion.
scoreLevel(score) ==
    IF score < 200 THEN "Needs Improvement"
    ELSE IF score < 300 THEN "Developing"
    ELSE IF score < 400 THEN "Proficient"
    ELSE IF score < 450 THEN "Advanced"
    ELSE "Exemplary"

calculateScorePercentage(score, maxScore) == RoundedPercent(score, maxScore)

\* generatePdf with the average taken over every record, drafts included.
generatePdfAveragingAll(assessmentData) ==
    LET Completed(a) == a.status = "completed"
        completedAssessments == Len(SelectSeq(assessmentData, Completed))
        totalAssessments == Len(assessmentData)
        sum == SumOf([i \in 1..totalAssessments |-> assessmentData[i].totalScore],
                     1..totalAssessments)
        count == IF totalAssessments = 0 THEN 1 ELSE totalAssessments
    IN  [totalAssessments |-> totalAssessments,
         completedAssessments |-> completedAssessments,
         completionRate |->
             OrZero(RoundedPercent(completedAssessments, totalAssessments)),
         averageScore |-> [sum |-> sum, count |-> count],
         averageText |-> (2 * sum + count) \div (2 * count),
         rows |-> [i \in 1..totalAssessments |->
                     IF Completed(assessmentData[i])
                     THEN <<"Completed", assessmentData[i].totalScore, "/5">>
                     ELSE <<"Draft", "N/A">>]]

\* generatePdf: the summary table (the counts, the completion rate before
\* its % sign, the average as the quotient sum / count and as toFixed(2)
\* prints it) and the status and score cells of the details table.  The
\* title block, the name and date cells and the file name are plain texts.
generatePdf(assessmentData) ==
    LET Completed(a) == a.status = "completed"
        completed == SelectSeq(assessmentData, Completed)
        completedAssessments == Len(completed)
        totalAssessments == Len(assessmentData)
        sum == SumOf([i \in 1..completedAssessments |-> completed[i].totalScore],
                     1..completedAssessments)
        count == IF completedAssessments = 0 THEN 1 ELSE completedAssessments
    IN  [totalAssessments |-> totalAssessments,
         completedAssessments |-> completedAssessments,
         completionRate |->
             OrZero(RoundedPercent(completedAssessments, totalAssessments)),
         averageScore |-> [sum |-> sum, count |-> count],
         averageText |-> (2 * sum + count) \div (2 * count),
         rows |-> [i \in 1..totalAssessments |->
                     IF Completed(assessmentData[i])
                     THEN <<"Completed", assessmentData[i].totalScore, "/5">>
                     ELSE <<"Draft", "N/A">>]]

\* The Completion Rate card of the admin Reports page: the number before the
\* % sign.  The query's data is undefined until, and unless, it has loaded.
CompletionRateCard(query) ==
    IF "data" \notin DOMAIN query THEN Finite(0)
    ELSE LET Completed(a) == a.status = "completed"
         IN  RoundedPercent(Len(SelectSeq(query.data, Completed)), Len(query.data))

\* The criteria loop of generatePDFPreview: the page count and the cursor
\* after criterion i and those behind it.  heights[i] is how far
\* jspdf-autotable's tables for criterion i move lastAutoTable.finalY.
RECURSIVE Paginate(_, _, _, _)
Paginate(heights, i, finalY, pages) ==
    IF i > Len(heights) THEN [finalY |-> finalY, pages |-> pages]
    ELSE LET y == finalY + heights[i] + 10
         IN  IF y > 270 THEN Paginate(heights, i + 1, 20, pages + 1)
             ELSE Paginate(heights, i + 1, y, pages)

\* generatePDFPreview: what is drawn, in order.  jsPDF's rect throws
\* "Invalid arguments passed to jsPDF.rect" when an argument is NaN; nothing
\* after the score bar is drawn then and no blob is returned.  The details
\* table is taken to end at the fallback finalY of 60.
generatePDFPreview(options, heights) ==
    LET criteria == options.criteria
        totalScore == options.totalScore
        maxTotalScore == Len(criteria) * 500
        validTotalScore == IF totalScore.kind = "finite" THEN totalScore.val ELSE 0
        scorePercentage == RoundedPercent(validTotalScore, maxTotalScore)
        Below(limit) == scorePercentage.kind = "-Infinity"
                        \/ (scorePercentage.kind = "finite" /\ scorePercentage.val < limit)
        fillColor == IF Below(40) THEN "red" ELSE IF Below(60) THEN "orange"
                     ELSE IF Below(75) THEN "blue" ELSE "green"
        \* 182 * (scorePercentage / 100), in hundredths of a millimetre
        progressWidth == IF scorePercentage.kind = "finite"
                         THEN Finite(182 * scorePercentage.val)
                         ELSE scorePercentage
        laid == Paginate(heights, 1, 60 + 50 + 10, 1)
        overall == options.overallFeedback # ""
        drawn == [header |-> TRUE,
                  usedTotal |-> validTotalScore,
                  scorePercentage |-> scorePercentage,
                  fillColor |-> fillColor,
                  progressWidth |-> progressWidth]
    IN  IF progressWidth.kind = "NaN"
        THEN Spread(drawn, [threw |-> TRUE, scoreText |-> <<>>, heading |-> FALSE,
                            sections |-> <<>>, overallFeedback |-> FALSE,
                            pages |-> 1, footers |-> {}])
        ELSE Spread(drawn,
                 [threw |-> FALSE,
                  \* `${totalScore.toFixed(1)} / ${maxTotalScore} (${scorePercentage}%)`
                  scoreText |-> <<totalScore, Finite(maxTotalScore), scorePercentage>>,
                  \* "Detailed Criterion Feedback" and its rule
                  heading |-> TRUE,
                  sections |-> [i \in 1..Len(criteria) |->
                                  [index |-> i, score |-> criteria[i].score,
                                   scoreLevel |-> scoreLevel(criteria[i].score),
                                   feedback |-> criteria[i].feedback # ""]],
                  overallFeedback |-> overall,
                  pages |-> laid.pages,
                  footers |-> 1..laid.pages])

\* filteredAssessments of the assessor results page: selected holds the four
\* selections, each "all" or the string of an id (of a status for status);
\* ToString is number.toString().
filteredAssessments(assessments, selected) ==
    LET Shown(assessment) ==
            /\ selected.status = "all"
               \/ ("status" \in DOMAIN assessment /\ assessment.status = selected.status)
            \* assessment.student?.class?.schoolId
            /\ selected.school = "all"
               \/ /\ "class" \in DOMAIN assessment.student
                  /\ ToString(assessment.student.class.schoolId) = selected.school
            /\ selected.class = "all"
               \/ ToString(assessment.student.classId) = selected.class
            /\ selected.task = "all"
               \/ ToString(assessment.taskId) = selected.task
    IN  SelectSeq(assessments, Shown)

-----------------------------------------------------------------------------
(* The browser side: one action per computation *)

\* What one computation leaves in client.  Every behaviour of SpecClient makes
\* one computation, on the store as Init leaves it.
Called(fn, args, out) == [fn |-> fn, args |-> args, out |-> out]

server == <<storage, pdfs, session, req, res, nreq>>

OnScoreLabel(max) ==
    /\ client.fn = ""
    /\ \E score \in 100..max :
          client' = Called("scoreLevel", score,
                           [formatScoreLevel |-> formatScoreLevel(score),
                            generatePDFPreview |-> scoreLevel(score),
                            getScoreText |-> getScoreText(score)])
    /\ UNCHANGED server

OnScorePercentage(max) ==
    /\ client.fn = ""
    /\ \E score \in 0..max, maxScore \in 0..max :
          client' = Called("calculateScorePercentage",
                           [score |-> score, maxScore |-> maxScore],
                           calculateScorePercentage(score, maxScore))
    /\ UNCHANGED server

\* The lists of at most max assessments, draft or completed, with a total.
AssessmentLists(max) ==
    UNION {[1..n -> [status : assessmentStatusEnum, totalScore : {0, 300, 500}]] :
             n \in 0..max}

OnGenerateReport(max) ==
    /\ client.fn = ""
    /\ \E assessmentData \in AssessmentLists(max) :
          client' = Called("generatePdf", assessmentData, generatePdf(assessmentData))
    /\ UNCHANGED server

OnReportsCard(max) ==
    /\ client.fn = ""
    /\ \E query \in {Empty} \cup {[data |-> list] : list \in AssessmentLists(max)} :
          client' = Called("CompletionRateCard", query, CompletionRateCard(query))
    /\ UNCHANGED server

OnPreview(max) ==
    /\ client.fn = ""
    /\ \E n \in 0..max :
          \E scores \in [1..n -> {150, 450}], heights \in [1..n -> {20, 160}],
             totalScore \in {Finite(0), Finite(450), Finite(1000), NaN,
                             Infinite(1), Infinite(-1)} :
              LET options == [criteria |-> [i \in 1..n |->
                                              [score |-> scores[i], feedback |-> ""]],
                              totalScore |-> totalScore,
                              overallFeedback |-> ""]
              IN  client' = Called("generatePDFPreview", options,
                                   generatePDFPreview(options, heights))
    /\ UNCHANGED server

\* The results page of assessor 1: the assessments it fetched with GET
\* /api/assessments?assessorId=1 and the selections made on it.
OnFilterResults ==
    /\ client.fn = ""
    /\ \E status \in {"all"} \cup assessmentStatusEnum,
          school \in {"all"} \cup {ToString(i) : i \in DOMAIN storage.schools},
          class \in {"all"} \cup {ToString(i) : i \in DOMAIN storage.classes},
          task \in {"all"} \cup {ToString(i) : i \in DOMAIN storage.tasks} :
          LET selected == [status |-> status, school |-> school, class |-> class,
                           task |-> task]
              assessments == WithRelations(storage,
                                 getAssessments(storage, [assessorId |-> 1]))
          IN  client' = Called("filteredAssessments",
                               [assessments |-> assessments, selected |-> selected],
                               filteredAssessments(assessments, selected))
    /\ UNCHANGED server

\* AssessmentForm, mutationFn: the totalScore sent to the API, in points.
submittedTotalScore(criteriaScores) ==
    SumOf([i \in 1..Len(criteriaScores) |-> OrZero(Finite(criteriaScores[i].score)).val],
          1..Len(criteriaScores))

\* AssessmentForm, generatePreview: the totalScore handed to
\* generatePDFPreview, the sum divided by (length || 1), in hundredths of a
\* point (cut off after the second decimal).
previewTotalScore(criteriaScores) ==
    LET criteriaCount == IF Len(criteriaScores) = 0 THEN 1 ELSE Len(criteriaScores)
    IN  (100 * submittedTotalScore(criteriaScores)) \div criteriaCount

\* The assessor has scored every criterion of the form, asks for the preview
\* and submits.
OnPreviewAndSubmit(max) ==
    /\ client.fn = ""
    /\ \E n \in 1..max :
          \E scores \in [1..n -> 1..5] :
              LET criteriaScores == [i \in 1..n |->
                                        [id |-> ToString(i), score |-> scores[i],
                                         feedback |-> ""]]
                  pdfData == [criteria |-> [i \in 1..n |->
                                               [score |-> 100 * scores[i], feedback |-> ""]],
                              totalScore |-> Finite(previewTotalScore(criteriaScores)),
                              overallFeedback |-> ""]
                  preview == generatePDFPreview(pdfData, [i \in 1..n |-> 20])
              IN  client' = Called("AssessmentForm", criteriaScores,
                                   [submitted |-> submittedTotalScore(criteriaScores),
                                    previewed |-> pdfData.totalScore,
                                    scorePercentage |-> preview.scorePercentage])
    /\ UNCHANGED server

NextClient ==
    \/ OnScoreLabel(MaxScore)
    \/ OnScorePercentage(MaxTotal)
    \/ OnGenerateReport(MaxRecords)
    \/ OnReportsCard(MaxRecords)
    \/ OnPreview(MaxCriteria)
    \/ OnFilterResults
    \/ OnPreviewAndSubmit(MaxCriteria)

SpecClient == Init /\ [][NextClient]_vars

-----------------------------------------------------------------------------
(* The admin Students page: pages/admin/students.tsx *)

\* The strings among the form's inputs that z.string().email() accepts.
EmailAddresses == {"sam@example.com"}

\* studentFormSchema: what the form lets through to onSubmit.
studentFormSchema(data) ==
    /\ Len(data.user.username) >= 1
    /\ Len(data.user.password) >= 6
    /\ data.user.email \in EmailAddresses
    /\ Len(data.user.fullName) >= 1
    /\ Len(data.student.classId) >= 1

\* parseInt of the class select's value, as JSON.stringify sends it: the
\* number, or null for NaN.
parseInt(s) ==
    IF \E n \in 0..9 : ToString(n) = s
    THEN N(CHOOSE n \in 0..9 : ToString(n) = s)
    ELSE [null |-> TRUE]

\* createMutation's payload.
createMutation(data) ==
    [student |-> [classId |-> parseInt(data.student.classId)],
     user |-> [k \in DOMAIN data.user |-> S(data.user[k])]]

\* updateMutation's payload: the password only when one was typed.
updateMutation(data) ==
    LET userData == IF data.user.password # "" THEN data.user
                    ELSE [k \in {"username", "email", "fullName"} |-> data.user[k]]
    IN  [student |-> [classId |-> parseInt(data.student.classId)],
         user |-> [k \in DOMAIN userData |-> S(userData[k])]]

\* What can be typed into the form: the class select offers the fetched
\* classes.
StudentFormValues(st) ==
    {[user |-> [username |-> username, password |-> password, email |-> email,
                fullName |-> <<"Sam", "Lee">>],
      student |-> [classId |-> classId]] :
        username \in {"sam", "student1"},
        password \in {"", "secret1"},
        email \in {"sam@example.com", "sam"},
        classId \in {""} \cup {ToString(c) : c \in DOMAIN st.classes}}

\* The admin submits the Add Student dialog: onSubmit runs only with values
\* the form schema accepts, and createMutation posts them.
OnSubmitAddStudent(max) ==
    /\ nreq < max
    /\ isAdmin(storage, session)
    /\ \E data \in StudentFormValues(storage) :
          /\ studentFormSchema(data)
          /\ LET payload == createMutation(data)
                 out == PostStudents(storage, session, payload)
             IN  /\ req' = Request("POST", "/api/students", Empty, Empty, payload)
                 /\ res' = out.res
                 /\ storage' = out.st
                 /\ client' = Called("createMutation", data, out.res.status)
    /\ nreq' = nreq + 1
    /\ UNCHANGED <<pdfs, session>>

\* The admin opens the Edit dialog of a listed student, changes the values
\* and submits: updateMutation puts them to /api/students/:id.
OnSubmitEditStudent(max) ==
    /\ nreq < max
    /\ isAdmin(storage, session)
    /\ \E selectedStudentId \in DOMAIN storage.students,
          data \in StudentFormValues(storage) :
          /\ studentFormSchema(data)
          /\ LET payload == updateMutation(data)
                 out == PutStudent(storage, session, selectedStudentId, payload)
             IN  /\ req' = Request("PUT", "/api/students/:id",
                                   [id |-> selectedStudentId], Empty, payload)
                 /\ res' = out.res
                 /\ storage' = out.st
                 /\ client' = Called("updateMutation", data, out.res.status)
    /\ nreq' = nreq + 1
    /\ UNCHANGED <<pdfs, session>>

NextForms ==
    \/ OnLogin(MaxFormRequests)
    \/ OnDeleteStudent(MaxFormRequests)
    \/ OnSubmitAddStudent(MaxFormRequests)
    \/ OnSubmitEditStudent(MaxFormRequests)

SpecForms == Init /\ [][NextForms]_vars

-----------------------------------------------------------------------------
(* RubricForm: its criteria state and the three handlers.  A list index is
   counted from 1 here, from 0 in the code. *)

BlankCriterion == [name |-> "", description |-> ""]

addCriterion(criteria) == criteria \o <<BlankCriterion>>

\* removeCriterion without the test of the list's length.
removeCriterionUnguarded(criteria, index) ==
    [j \in 1..(Len(criteria) - 1) |->
        IF j < index THEN criteria[j] ELSE criteria[j + 1]]

\* newCriteria.splice(index, 1), when there is more than one criterion.
removeCriterion(criteria, index) ==
    IF Len(criteria) > 1
    THEN SubSeq(criteria, 1, index - 1) \o SubSeq(criteria, index + 1, Len(criteria))
    ELSE criteria

updateCriterion(criteria, index, field, value) ==
    [criteria EXCEPT ![index] = Spread(@, (field :> value))]

\* The form is mounted: useState(initialData?.criteria || [blank]).
OnOpenRubricForm(max) ==
    /\ client.fn = ""
    /\ \E initialData \in
            {Undefined}
            \cup {[criteria |-> [j \in 1..n |-> [name |-> "Ideas", description |-> ""]]] :
                     n \in 1..max} :
          client' = [fn |-> "RubricForm", args |-> initialData,
                     criteria |-> IF initialData = Undefined
                                  THEN <<BlankCriterion>>
                                  ELSE initialData.criteria]
    /\ UNCHANGED server

RubricHandlers == {"RubricForm", "addCriterion", "removeCriterion", "updateCriterion"}

OnAddCriterion(max) ==
    /\ client.fn \in RubricHandlers
    /\ Len(client.criteria) < max
    /\ client' = [fn |-> "addCriterion", args |-> Empty,
                  criteria |-> addCriterion(client.criteria)]
    /\ UNCHANGED server

OnRemoveCriterion ==
    /\ client.fn \in RubricHandlers
    /\ \E index \in 1..Len(client.criteria) :
          client' = [fn |-> "removeCriterion", args |-> [index |-> index],
                     criteria |-> removeCriterion(client.criteria, index)]
    /\ UNCHANGED server

OnUpdateCriterion ==
    /\ client.fn \in RubricHandlers
    /\ \E index \in 1..Len(client.criteria), field \in {"name", "description"},
          value \in {"", "Ideas"} :
          client' = [fn |-> "updateCriterion",
                     args |-> [index |-> index, field |-> field, value |-> value],
                     criteria |-> updateCriterion(client.criteria, index, field, value)]
    /\ UNCHANGED server

NextRubricForm ==
    \/ OnOpenRubricForm(MaxRubricCriteria)
    \/ OnAddCriterion(MaxRubricCriteria)
    \/ OnRemoveCriterion
    \/ OnUpdateCriterion

SpecRubricForm == Init /\ [][NextRubricForm]_vars

-----------------------------------------------------------------------------
(* AuthProvider: the client auth state, the mount-time status check and
   login()/logout().  A request is answered by the server in one step and its
   response is handled by the page in a later one; null is Undefined. *)

\* The page is loaded, or loaded again: the state is the initial one and
\* checkAuth has sent GET /api/auth/status.  What an earlier page was waiting
\* for is dropped.
OnMount ==
    /\ client.fn \in {"", "AuthProvider"}
    /\ client' = [fn |-> "AuthProvider", user |-> Undefined,
                  isAuthenticated |-> FALSE, loading |-> TRUE,
                  checkAuth |-> [pc |-> "fetching", data |-> Empty],
                  login |-> [pc |-> "idle", ok |-> FALSE],
                  resolvedTrue |-> FALSE]
    /\ UNCHANGED server

\* The server answers the status check with the session it sees at that
\* moment.
OnStatusAnswered(max) ==
    /\ nreq < max
    /\ client.fn = "AuthProvider" /\ client.checkAuth.pc = "fetching"
    /\ LET out == GetAuthStatus(storage, session)
       IN  /\ req' = Request("GET", "/api/auth/status", Empty, Empty, Empty)
           /\ res' = out.res
           /\ client' = [client EXCEPT !.checkAuth = [pc |-> "answered",
                                                      data |-> out.res.body]]
    /\ nreq' = nreq + 1
    /\ UNCHANGED <<storage, pdfs, session>>

\* checkAuth goes on after its awaits with the answer it was given.
OnStatusResponse ==
    /\ client.fn = "AuthProvider" /\ client.checkAuth.pc = "answered"
    /\ LET data == client.checkAuth.data
           restored == data.authenticated /\ "user" \in DOMAIN data
       IN  client' = [client EXCEPT
                         !.user = IF restored THEN data.user ELSE Undefined,
                         !.isAuthenticated = restored,
                         !.loading = FALSE,
                         !.checkAuth = [pc |-> "done", data |-> Empty]]
    /\ UNCHANGED server

\* login(username, password) is called and the server answers POST
\* /api/auth/login.
OnLoginPosted(max) ==
    /\ nreq < max
    /\ client.fn = "AuthProvider" /\ client.login.pc = "idle"
    /\ \E c \in Credentials :
          LET user == LocalStrategy(storage, c.username, c.password) IN
          /\ req' = Request("POST", "/api/auth/login", Empty, Empty,
                            [username |-> S(c.username), password |-> S(c.password)])
          /\ IF user = Undefined
             THEN /\ res' = [status |-> 401, body |-> Message("Unauthorized")]
                  /\ UNCHANGED session
             ELSE /\ res' = [status |-> 200, body |-> [user |-> user]]
                  /\ session' = <<user.id>>
          /\ client' = [client EXCEPT !.loading = TRUE,
                                      !.login = [pc |-> "posted", ok |-> user # Undefined],
                                      !.resolvedTrue = FALSE]
    /\ nreq' = nreq + 1
    /\ UNCHANGED <<storage, pdfs>>

\* login() goes on: a refused login throws into the catch (false); an
\* accepted one fetches GET /api/user and on its 200 sets the user (true).
OnLoginResolved(max) ==
    /\ client.fn = "AuthProvider" /\ client.login.pc = "posted"
    /\ LET failed == [client EXCEPT !.user = Undefined, !.isAuthenticated = FALSE,
                                    !.loading = FALSE,
                                    !.login = [pc |-> "idle", ok |-> FALSE]]
       IN  IF ~client.login.ok
           THEN client' = failed /\ UNCHANGED <<req, res, nreq>>
           ELSE LET out == GetUser(storage, session) IN
                /\ nreq < max
                /\ req' = Request("GET", "/api/user", Empty, Empty, Empty)
                /\ res' = out.res
                /\ nreq' = nreq + 1
                /\ client' = IF out.res.status # 200 THEN failed
                             ELSE [client EXCEPT !.user = out.res.body,
                                                 !.isAuthenticated = TRUE,
                                                 !.loading = FALSE,
                                                 !.login = [pc |-> "idle", ok |-> FALSE],
                                                 !.resolvedTrue = TRUE]
    /\ UNCHANGED <<storage, pdfs, session>>

\* logout(): POST /api/auth/logout, then the state is cleared.
OnLogoutCalled(max) ==
    /\ nreq < max
    /\ client.fn = "AuthProvider"
    /\ req' = Request("POST", "/api/auth/logout", Empty, Empty, Empty)
    /\ res' = [status |-> 200, body |-> Message("Logged out successfully")]
    /\ session' = <<>>
    /\ client' = [client EXCEPT !.user = Undefined, !.isAuthenticated = FALSE,
                                !.resolvedTrue = FALSE]
    /\ nreq' = nreq + 1
    /\ UNCHANGED <<storage, pdfs>>

NextAuth ==
    \/ OnMount
    \/ OnStatusAnswered(MaxAuthRequests)
    \/ OnStatusResponse
    \/ OnLoginPosted(MaxAuthRequests)
    \/ OnLoginResolved(MaxAuthRequests)
    \/ OnLogoutCalled(MaxAuthRequests)

SpecAuth == Init /\ [][NextAuth]_vars

-----------------------------------------------------------------------------
(* What the properties below say of a request and its caller *)

\* The role the session's user has in the store, if it has a user there.
CallerRole(st, sess) ==
    IF sess # <<>> /\ sess[1] \in DOMAIN st.users
    THEN st.users[sess[1]].role ELSE "anonymous"

AssessmentRoutes == {"/api/assessments", "/api/assessments/:id"}

\* The routes that create, update or delete records, and the map each is
\* about.
MapOf(route) ==
    CASE route \in {"/api/schools", "/api/schools/:id"} -> "schools"
      [] route \in {"/api/classes", "/api/classes/:id"} -> "classes"
      [] route \in {"/api/students", "/api/students/:id"} -> "students"
      [] route \in {"/api/assessors", "/api/assessors/:id"} -> "assessors"
      [] route \in {"/api/rubric-templates", "/api/rubric-templates/:id"}
            -> "rubricTemplates"
      [] route \in {"/api/tasks", "/api/tasks/:id"} -> "tasks"
      [] route \in {"/api/class-tasks", "/api/class-tasks/:id"} -> "classTasks"
      [] route \in AssessmentRoutes -> "assessments"
      [] OTHER -> "none"

Mutating(r) ==
    r.method \in {"POST", "PUT", "DELETE"} /\ MapOf(r.route) # "none"

\* The caller holds the role the route asks for: admin, or for the
\* assessment routes assessor or admin.
Authorised(st, sess, r) ==
    CallerRole(st, sess) \in
        (IF r.route \in AssessmentRoutes THEN {"assessor", "admin"} ELSE {"admin"})

SchemaOf(route) ==
    CASE MapOf(route) = "schools" -> insertSchoolSchema
      [] MapOf(route) = "classes" -> insertClassSchema
      [] MapOf(route) = "students" -> insertStudentSchema
      [] MapOf(route) = "assessors" -> insertAssessorSchema
      [] MapOf(route) = "rubricTemplates" -> insertRubricTemplateSchema
      [] MapOf(route) = "tasks" -> insertTaskSchema
      [] MapOf(route) = "classTasks" -> insertClassTaskSchema
      [] MapOf(route) = "assessments" -> insertAssessmentSchema

\* The body of a create or update request fails the schema its route parses
\* it with (POST /api/students and /api/assessors parse two parts).
BodyInvalid(r) ==
    CASE r.route = "/api/students" ->
            \/ Parse(insertStudentSchema, FALSE, Property(r.body, "student")).ZodError
            \/ Parse(insertUserSchema, FALSE, Property(r.body, "user")).ZodError
      [] r.route = "/api/assessors" ->
            \/ Parse(insertAssessorSchema, FALSE, Property(r.body, "assessor")).ZodError
            \/ Parse(insertUserSchema, FALSE, Property(r.body, "user")).ZodError
      [] OTHER -> Parse(SchemaOf(r.route), r.method = "PUT", r.body).ZodError

\* A step that answers a request.
Answered == nreq' = nreq + 1

-----------------------------------------------------------------------------
(* C1 *)

\* C1: after the store's deleteStudent(id) on an existing Student (DELETE
\* /api/students/:id by an admin), and likewise deleteAssessor(id) on an
\* existing Assessor, neither that record nor the User whose id was its
\* userId is in the store.
C1_DeleteRemovesLinkedUser ==
    [][\A m \in {"students", "assessors"} :
          (/\ Answered
           /\ req'.method = "DELETE"
           /\ req'.route \in {"/api/students/:id", "/api/assessors/:id"}
           /\ MapOf(req'.route) = m
           /\ CallerRole(storage, session) = "admin"
           /\ req'.params.id \in DOMAIN storage[m])
          => /\ req'.params.id \notin DOMAIN storage'[m]
             /\ storage[m][req'.params.id].userId \notin DOMAIN storage'.users
             /\ res'.status = 204]_vars

\* A student that existed has just been deleted.
C1_Witness ==
    /\ req.method = "DELETE" /\ req.route = "/api/students/:id"
    /\ res.status = 204
    /\ req.params.id \notin DOMAIN storage.students

-----------------------------------------------------------------------------
(* C2 *)

\* C2: in every store state reached through the REST API every foreign key
\* refers to an existing record: Class.schoolId, Student.classId and userId,
\* Assessor.userId, Task.rubricTemplateId, ClassTask.classId and taskId,
\* Assessment.studentId, assessorId and taskId.
C2_ReferentialIntegrity ==
    /\ \A c \in DOMAIN storage.classes :
          storage.classes[c].schoolId \in DOMAIN storage.schools
    /\ \A s \in DOMAIN storage.students :
          /\ storage.students[s].classId \in DOMAIN storage.classes
          /\ storage.students[s].userId \in DOMAIN storage.users
    /\ \A a \in DOMAIN storage.assessors :
          storage.assessors[a].userId \in DOMAIN storage.users
    /\ \A t \in DOMAIN storage.tasks :
          storage.tasks[t].rubricTemplateId \in DOMAIN storage.rubricTemplates
    /\ \A ct \in DOMAIN storage.classTasks :
          /\ storage.classTasks[ct].classId \in DOMAIN storage.classes
          /\ storage.classTasks[ct].taskId \in DOMAIN storage.tasks
    /\ \A a \in DOMAIN storage.assessments :
          /\ storage.assessments[a].studentId \in DOMAIN storage.students
          /\ storage.assessments[a].assessorId \in DOMAIN storage.assessors
          /\ storage.assessments[a].taskId \in DOMAIN storage.tasks

-----------------------------------------------------------------------------
(* C3 *)

\* C3: a request to a mutating endpoint from a caller without the role the
\* endpoint requires (an unauthenticated caller included) is answered 401 or
\* 403 and leaves the store, and the files written, as they were.
C3_UnauthorisedRefused ==
    [][(Answered /\ Mutating(req') /\ ~Authorised(storage, session, req'))
       => /\ res'.status \in {401, 403}
          /\ storage' = storage
          /\ pdfs' = pdfs]_vars

\* A logged-in student has just been refused a mutating request.
C3_Witness ==
    /\ Mutating(req)
    /\ CallerRole(storage, session) = "student"
    /\ ~Authorised(storage, session, req)
    /\ res.status \in {401, 403}

-----------------------------------------------------------------------------
(* C4 *)

\* C4: none of GET /api/assessments, GET /api/assessments/:id and GET
\* /api/students/:id/assessments returns to a logged-in student an assessment
\* whose studentId is not the id of that student's own Student record.
C4_StudentReadsOwnOnly ==
    LET own == getStudentByUserId(storage, session[1])
        Mine(a) == own # Undefined /\ a.studentId = own.id
    IN  (/\ CallerRole(storage, session) = "student"
         /\ req.method = "GET"
         /\ res.status = 200)
        => CASE req.route \in {"/api/assessments", "/api/students/:id/assessments"}
                   -> \A i \in 1..Len(res.body) : Mine(res.body[i])
             [] req.route = "/api/assessments/:id" -> Mine(res.body)
             [] OTHER -> TRUE

-----------------------------------------------------------------------------
(* C5 *)

ClassReads ==
    {"/api/classes/:id/students", "/api/classes/:id/tasks",
     "/api/classes/:id/assessments"}

\* C5: a logged-in assessor is returned the students, tasks or assessments
\* of a class only when the class belongs to a school listed in the
\* assessor's schoolIds; for a class of any other school no data is returned.
C5_AssessorReadsOwnSchools ==
    LET assessor == getAssessorByUserId(storage, session[1])
        id == req.params.id
    IN  (/\ CallerRole(storage, session) = "assessor"
         /\ req.method = "GET"
         /\ req.route \in ClassReads
         /\ assessor # Undefined
         /\ id \in DOMAIN storage.classes
         /\ ~Includes(assessor.schoolIds, storage.classes[id].schoolId))
        => res.status # 200 \/ res.body = <<>>

-----------------------------------------------------------------------------
(* C6 *)

\* C6: a create or update request of an authorised caller whose body fails
\* schema validation is answered 400 and leaves the store as it was; for POST
\* /api/students and POST /api/assessors an invalid student/assessor part or
\* an invalid user part means no User and no Student/Assessor is created.
C6_InvalidBodyRejected ==
    [][(/\ Answered
        /\ Mutating(req') /\ req'.method \in {"POST", "PUT"}
        /\ Authorised(storage, session, req')
        /\ BodyInvalid(req'))
       => /\ res'.status = 400
          /\ storage' = storage
          /\ pdfs' = pdfs]_vars

\* An admin's POST /api/students with a valid user part and an invalid
\* student part has just been refused.
C6_Witness ==
    /\ req.method = "POST" /\ req.route = "/api/students"
    /\ Authorised(storage, session, req)
    /\ ~Parse(insertUserSchema, FALSE, Property(req.body, "user")).ZodError
    /\ Parse(insertStudentSchema, FALSE, Property(req.body, "student")).ZodError
    /\ res.status = 400

-----------------------------------------------------------------------------
(* C7 *)

\* An authorised PUT or DELETE for an id its map does not hold.
MissingTarget ==
    /\ Answered
    /\ Mutating(req') /\ req'.method \in {"PUT", "DELETE"}
    /\ Authorised(storage, session, req')
    /\ req'.params.id \notin DOMAIN storage[MapOf(req'.route)]

\* C7 as stated: a PUT or DELETE for an id that does not exist for its
\* entity type is answered 404 and leaves the store unchanged.
C7_MissingIdIs404 ==
    [][MissingTarget => res'.status = 404 /\ storage' = storage]_vars

\* C7, amended: a DELETE, or a PUT whose body passes the partial schema, for
\* an id that does not exist for its entity type is answered 404 and leaves
\* the store unchanged, also after that id was deleted.
C7_MissingIdIs404WhenBodyValid ==
    [][(MissingTarget /\ ~(req'.method = "PUT" /\ BodyInvalid(req')))
       => res'.status = 404 /\ storage' = storage]_vars

\* An admin's request for a school id that was allocated and has since been
\* deleted has just been answered 404.
C7_Witness ==
    /\ req.method \in {"PUT", "DELETE"} /\ req.route = "/api/schools/:id"
    /\ Authorised(storage, session, req)
    /\ req.params.id < storage.schoolId
    /\ req.params.id \notin DOMAIN storage.schools
    /\ res.status = 404

-----------------------------------------------------------------------------
(* C8 *)

MapNames ==
    {"users", "schools", "classes", "students", "assessors", "rubricTemplates",
     "tasks", "classTasks", "assessments"}

\* C8: a delete request removes at most the targeted record and, for a
\* student or an assessor, the one user that record links to; every other
\* record of every map stays as it was, no record is added, and the id
\* counters are not touched.
C8_DeleteRemovesOnlyTarget ==
    [][(Answered /\ Mutating(req') /\ req'.method = "DELETE")
       => LET m == MapOf(req'.route)
              id == req'.params.id
              owned == IF m \in {"students", "assessors"} /\ id \in DOMAIN storage[m]
                       THEN {storage[m][id].userId} ELSE {}
          IN  \A k \in DOMAIN storage :
                 IF k \in MapNames
                 THEN /\ DOMAIN storage'[k] \subseteq DOMAIN storage[k]
                      /\ \A i \in DOMAIN storage[k] :
                            \/ i \in DOMAIN storage'[k] /\ storage'[k][i] = storage[k][i]
                            \/ k = m /\ i = id
                            \/ k = "users" /\ i \in owned
                 ELSE storage'[k] = storage[k]]_vars

\* A school has just been deleted and a class of that school is still there.
C8_Witness ==
    /\ req.method = "DELETE" /\ req.route = "/api/schools/:id"
    /\ res.status = 204
    /\ req.params.id \notin DOMAIN storage.schools
    /\ \E c \in DOMAIN storage.classes : storage.classes[c].schoolId = req.params.id

-----------------------------------------------------------------------------
(* C9 *)

\* C9: in every store state reached through the REST API no two students
\* share a userId, no two assessors share a userId, and no user is linked
\* from both a student and an assessor.
C9_UserLinksOneToOne ==
    /\ \A s1, s2 \in DOMAIN storage.students :
          s1 # s2 => storage.students[s1].userId # storage.students[s2].userId
    /\ \A a1, a2 \in DOMAIN storage.assessors :
          a1 # a2 => storage.assessors[a1].userId # storage.assessors[a2].userId
    /\ \A s1 \in DOMAIN storage.students : \A a1 \in DOMAIN storage.assessors :
          storage.students[s1].userId # storage.assessors[a1].userId

-----------------------------------------------------------------------------
(* C10 *)

\* C10: every assessment in the store has totalScore equal to the sum of the
\* values of its scores.
C10_TotalScoreIsSum ==
    \A a \in DOMAIN storage.assessments :
        LET scores == storage.assessments[a].scores
        IN  storage.assessments[a].totalScore = SumOf(scores, DOMAIN scores)

-----------------------------------------------------------------------------
(* C11 *)

\* C11: in every store state reached through POST /api/assessments and PUT
\* /api/assessments/:id, whatever they were answered, every assessment whose
\* status is completed has a non-empty pdfPath.
C11_CompletedHasPdfPath ==
    \A a \in DOMAIN storage.assessments :
        LET assessment == storage.assessments[a]
        IN  ("status" \in DOMAIN assessment /\ assessment.status = "completed")
            => ("pdfPath" \in DOMAIN assessment /\ assessment.pdfPath # "")

-----------------------------------------------------------------------------
(* C12 *)

\* C12: no two users in the store have the same username.
C12_UsernamesUnique ==
    \A u1, u2 \in DOMAIN storage.users :
        u1 # u2 => storage.users[u1].username # storage.users[u2].username

-----------------------------------------------------------------------------
(* C13 *)

\* C13: on the assessor results page, for every combination of the status,
\* school, class and task selections, the list shown is exactly the fetched
\* assessments that satisfy every selection that is not "all": status equal,
\* school of the student's class equal, student's class equal, task equal.
C13_ShownIsExactlyTheSelection ==
    client.fn = "filteredAssessments" =>
        LET selected == client.args.selected
            Wanted(a) ==
                /\ selected.status = "all" \/ a.status = selected.status
                /\ selected.school = "all"
                   \/ ToString(storage.classes[a.student.classId].schoolId)
                      = selected.school
                /\ selected.class = "all"
                   \/ ToString(a.student.classId) = selected.class
                /\ selected.task = "all" \/ ToString(a.taskId) = selected.task
        IN  client.out = SelectSeq(client.args.assessments, Wanted)

-----------------------------------------------------------------------------
(* C14 *)

\* C14: GET /api/assessments answers with exactly the stored assessments that
\* match every filter of the query (all of them when the query is empty):
\* none that does not match, and no matching one left out.
C14_ListIsExactlyTheMatches ==
    (req.method = "GET" /\ req.route = "/api/assessments" /\ res.status = 200)
    => {res.body[i].id : i \in 1..Len(res.body)}
       = {a \in DOMAIN storage.assessments :
             \A k \in DOMAIN req.query :
                 k \in DOMAIN storage.assessments[a]
                 /\ storage.assessments[a][k] = req.query[k]}

-----------------------------------------------------------------------------
(* C15 *)

\* C15: for every score from 1 to 5, boundaries included, formatScoreLevel,
\* the per-criterion label of generatePDFPreview and CriterionFeedback's
\* getScoreText all give Needs Improvement below 2, Developing from 2 and
\* below 3, Proficient from 3 and below 4, Advanced from 4 and below 4.5, and
\* Exemplary from 4.5.
C15_ScoreLabelsAgree ==
    client.fn = "scoreLevel" =>
        LET score == client.args
            label == CASE score < 200 -> "Needs Improvement"
                       [] 200 <= score /\ score < 300 -> "Developing"
                       [] 300 <= score /\ score < 400 -> "Proficient"
                       [] 400 <= score /\ score < 450 -> "Advanced"
                       [] score >= 450 -> "Exemplary"
        IN  /\ client.out.formatScoreLevel = label
            /\ client.out.generatePDFPreview = label
            /\ client.out.getScoreText = label

\* The three labels of the boundary score 2.00 have been worked out.
C15_Witness ==
    /\ client.fn = "scoreLevel" /\ client.args = 200
    /\ client.out.formatScoreLevel = "Developing"

-----------------------------------------------------------------------------
(* C16 *)

\* C16: calculateScorePercentage(total, maxScore) is round(total / maxScore *
\* 100) for every maxScore > 0, and is 0 for total = 0 with maxScore = 0.
C16_PercentageGuarded ==
    client.fn = "calculateScorePercentage" =>
        LET total == client.args.score
            maxScore == client.args.maxScore
            percentage == client.out
        IN  /\ maxScore > 0 =>
                /\ percentage.kind = "finite"
                /\ 2 * maxScore * percentage.val <= 200 * total + maxScore
                /\ 200 * total + maxScore < 2 * maxScore * (percentage.val + 1)
            /\ (maxScore = 0 /\ total = 0) => percentage = Finite(0)

-----------------------------------------------------------------------------
(* C17 *)

\* C17: for every list of assessments the completion rate shown, in the
\* summary of the aggregate report and on the Completion Rate card of the
\* admin Reports page, is the integer round(completed / total * 100), within
\* 0..100, and 0 for the empty list; it is never NaN.
C17_CompletionRateIsAPercentage ==
    LET Rate(list, shown) ==
            LET total == Len(list)
                completed == Cardinality({i \in 1..total : list[i].status = "completed"})
            IN  /\ shown.kind = "finite"
                /\ shown.val \in 0..100
                /\ IF total = 0 THEN shown.val = 0
                   ELSE /\ 2 * total * shown.val <= 200 * completed + total
                        /\ 200 * completed + total < 2 * total * (shown.val + 1)
    IN  /\ client.fn = "generatePdf" => Rate(client.args, client.out.completionRate)
        /\ (client.fn = "CompletionRateCard" /\ "data" \in DOMAIN client.args)
           => Rate(client.args.data, client.out)

-----------------------------------------------------------------------------
(* C18 *)

\* C18: the average score of the aggregate report is the sum of totalScore
\* over the completed records divided by their number, the drafts counting
\* for neither; it is 0 when no record is completed.
C18_AverageOverCompleted ==
    client.fn = "generatePdf" =>
        LET list == client.args
            completed == {i \in 1..Len(list) : list[i].status = "completed"}
            sum == SumOf([i \in completed |-> list[i].totalScore], completed)
            average == client.out.averageScore
        IN  /\ average.count > 0
            /\ IF completed = {} THEN average.sum = 0
               ELSE average.sum * Cardinality(completed) = sum * average.count

\* A report has been made from a list holding a completed record and a draft
\* with a total above 0.
C18_Witness ==
    /\ client.fn = "generatePdf"
    /\ \E i, j \in 1..Len(client.args) :
          /\ client.args[i].status = "completed"
          /\ client.args[j].status = "draft" /\ client.args[j].totalScore > 0

-----------------------------------------------------------------------------
(* C19 *)

\* C19: generatePDFPreview with an empty criteria list does not raise and
\* makes a document of exactly one page, with the header band and the page
\* footer, and no criterion section.
C19_EmptyCriteriaOnePage ==
    (client.fn = "generatePDFPreview" /\ client.args.criteria = <<>>)
    => /\ ~client.out.threw
       /\ client.out.pages = 1
       /\ client.out.header
       /\ client.out.footers = {1}
       /\ client.out.sections = <<>>

-----------------------------------------------------------------------------
(* C20 *)

\* C20: for a totalScore that is NaN or infinite (and a criteria list that is
\* not empty) generatePDFPreview does not raise, takes 0 as the total for the
\* percentage and the score bar, and writes no text with NaN in it.
C20_NonFiniteTotalGuarded ==
    (/\ client.fn = "generatePDFPreview"
     /\ client.args.totalScore.kind # "finite"
     /\ client.args.criteria # <<>>)
    => /\ ~client.out.threw
       /\ client.out.usedTotal = 0
       /\ client.out.scorePercentage = Finite(0)
       /\ client.out.progressWidth = Finite(0)
       /\ \A i \in 1..Len(client.out.scoreText) : client.out.scoreText[i].kind # "NaN"

-----------------------------------------------------------------------------
(* C23 *)

\* C23: GET /api/assessors/:id/classes asked by a logged-in assessor whose
\* own Assessor id is :id is answered 200 with exactly the classes whose
\* schoolId is in that assessor's schoolIds; asked by an assessor for another
\* assessor id, or by a student, it is answered 403.
C23_AssessorReadsOwnClasses ==
    (req.method = "GET" /\ req.route = "/api/assessors/:id/classes")
    => LET role == CallerRole(storage, session)
           id == req.params.id
           own == {a \in DOMAIN storage.assessors :
                      storage.assessors[a].userId = session[1]}
       IN  /\ (role = "assessor" /\ id \in own)
              => /\ res.status = 200
                 /\ {res.body[i].id : i \in 1..Len(res.body)}
                    = {c \in DOMAIN storage.classes :
                          Includes(storage.assessors[id].schoolIds,
                                   storage.classes[c].schoolId)}
           /\ (role = "assessor" /\ id \notin own) => res.status = 403
           /\ role = "student" => res.status = 403

-----------------------------------------------------------------------------
(* C24 *)

\* C24: when POST /api/assessments or PUT /api/assessments/:id is answered
\* 500, the assessments map is what it was before the request.
C24_FailedWriteChangesNothing ==
    [][(/\ Answered
        /\ req'.method \in {"POST", "PUT"}
        /\ req'.route \in AssessmentRoutes
        /\ res'.status = 500)
       => storage'.assessments = storage.assessments]_vars

-----------------------------------------------------------------------------
(* C25 *)

\* A step in which PUT /api/assessments/:id has updated the record: the
\* caller was let in, the body parsed and the id found.
PutUpdated ==
    /\ Answered
    /\ req'.method = "PUT" /\ req'.route = "/api/assessments/:id"
    /\ res'.status \in {200, 500}

\* The record of the PUT's id before the step with the parsed body over it.
PutMerged ==
    Spread(storage.assessments[req'.params.id],
           Parse(insertAssessmentSchema, TRUE, req'.body).data)

\* The status after the update is completed and the record before it was not
\* completed or had no pdfPath.
PutPdfDue ==
    /\ StatusOf(PutMerged) = "completed"
    /\ \/ StatusOf(storage.assessments[req'.params.id]) # "completed"
       \/ PdfPathOf(storage.assessments[req'.params.id]) = ""

\* A PDF file has been written and its path stored over the merged record.
PutPdfStored ==
    \E f \in pdfs' :
        storage'.assessments[req'.params.id]
            = Spread(PutMerged, [pdfPath |-> "/pdfs/" \o f])

\* No PDF file has been written and the record is the merged one.
PutPdfSkipped ==
    /\ pdfs' = pdfs
    /\ storage'.assessments[req'.params.id] = PutMerged

-----------------------------------------------------------------------------
(* C30 *)

\* The id counter of each map.
CounterOf(map) ==
    CASE map = "users" -> "userId"
      [] map = "schools" -> "schoolId"
      [] map = "classes" -> "classId"
      [] map = "students" -> "studentId"
      [] map = "assessors" -> "assessorId"
      [] map = "rubricTemplates" -> "rubricTemplateId"
      [] map = "tasks" -> "taskId"
      [] map = "classTasks" -> "classTaskId"
      [] map = "assessments" -> "assessmentId"

\* Every record is stored under its own id, below its map's counter.
KeysAreIds ==
    \A map \in MapNames :
        \A i \in DOMAIN storage[map] :
            storage[map][i].id = i /\ i < storage[CounterOf(map)]

\* C30: for each entity type the ids issued by creates are strictly
\* increasing and never reused, also after deletes: the records a step adds
\* are stored under exactly the ids the counter has moved over, a create
\* leaves every existing record as it was, every record is stored under the
\* key equal to its id, and no update changes a record's id.
C30_IdsNeverReused ==
    /\ []KeysAreIds
    /\ [][\A map \in MapNames :
            LET counter == CounterOf(map) IN
            /\ storage'[counter] >= storage[counter]
            /\ DOMAIN storage'[map] \ DOMAIN storage[map]
               = storage[counter] .. (storage'[counter] - 1)
            /\ \A i \in DOMAIN storage[map] \cap DOMAIN storage'[map] :
                  storage'[map][i].id = storage[map][i].id
            /\ req'.method = "POST"
               => \A i \in DOMAIN storage[map] :
                     i \in DOMAIN storage'[map] /\ storage'[map][i] = storage[map][i]
         ]_vars

\* A school has just been created after an earlier school was deleted: its
\* id is the counter's last value, and a smaller id is free.
C30_Witness ==
    /\ req.method = "POST" /\ req.route = "/api/schools" /\ res.status = 201
    /\ res.body.id = storage.schoolId - 1
    /\ res.body.id \in DOMAIN storage.schools
    /\ \E i \in 1..(res.body.id - 1) : i \notin DOMAIN storage.schools

-----------------------------------------------------------------------------
(* C21 *)

\* C21: submitting the admin add-student form with values that pass the
\* form's validation is answered 201 and adds exactly one Student and one
\* User with role student, the Student's userId being that User's id.
C21_AddStudentFormCreates ==
    [][(Answered /\ client'.fn = "createMutation" /\ req'.route = "/api/students")
       => /\ res'.status = 201
          /\ \E s \in DOMAIN storage'.students, u \in DOMAIN storage'.users :
                /\ DOMAIN storage'.students = DOMAIN storage.students \cup {s}
                /\ s \notin DOMAIN storage.students
                /\ DOMAIN storage'.users = DOMAIN storage.users \cup {u}
                /\ u \notin DOMAIN storage.users
                /\ storage'.users[u].role = "student"
                /\ storage'.students[s].userId = u]_vars

-----------------------------------------------------------------------------
(* C22 *)

\* C22: when the admin edit-student form is submitted with a class other
\* than the student's and the answer is 2xx, the stored Student's classId is
\* afterwards the class submitted.
C22_EditStudentFormMovesClass ==
    [][(/\ Answered
        /\ client'.fn = "updateMutation" /\ req'.route = "/api/students/:id"
        /\ res'.status \in 200..299
        /\ ToString(storage.students[req'.params.id].classId)
           # client'.args.student.classId)
       => ToString(storage'.students[req'.params.id].classId)
          = client'.args.student.classId]_vars

-----------------------------------------------------------------------------
(* C26 *)

\* C26: after any sequence of addCriterion, removeCriterion and
\* updateCriterion on the rubric form, started from a list that is not empty,
\* the list has at least one entry; removeCriterion on a list of one entry
\* leaves it as it is, and otherwise removes exactly the entry at the index,
\* the others keeping their order.
C26_CriteriaNeverEmpty ==
    /\ [](client.fn \in RubricHandlers => Len(client.criteria) >= 1)
    /\ [][client'.fn = "removeCriterion" =>
            LET before == client.criteria
                after == client'.criteria
                index == client'.args.index
            IN  IF Len(before) = 1 THEN after = before
                ELSE /\ Len(after) = Len(before) - 1
                     /\ \A j \in 1..Len(after) :
                           after[j] = IF j < index THEN before[j] ELSE before[j + 1]
         ]_vars

\* The first entry of the list has just been removed, and the two criteria
\* left have no name.
C26_Witness ==
    /\ client.fn = "removeCriterion" /\ client.args.index = 1
    /\ Len(client.criteria) = 2
    /\ \A j \in 1..2 : client.criteria[j].name = ""

-----------------------------------------------------------------------------
(* C27 *)

-----------------------------------------------------------------------------
(* C28 *)

\* C28: whenever the client auth state holds an authenticated user with role
\* assessor (student) whose Assessor (Student) record exists, the user object
\* has assessorId (studentId), whether login() or the mount-time status
\* check set it.
C28_UserCarriesItsRecordId ==
    (client.fn = "AuthProvider" /\ client.isAuthenticated /\ client.user # Undefined)
    => LET user == client.user IN
       /\ (/\ user.role = "assessor"
           /\ \E a \in DOMAIN storage.assessors : storage.assessors[a].userId = user.id)
          => "assessorId" \in DOMAIN user
       /\ (/\ user.role = "student"
           /\ \E t \in DOMAIN storage.students : storage.students[t].userId = user.id)
          => "studentId" \in DOMAIN user

-----------------------------------------------------------------------------
(* C29 *)

\* C29: for any criterion scores entered in the assessment form, the
\* totalScore its PDF preview hands to generatePDFPreview is the totalScore
\* the form submits to the API, the sum of the criterion scores, so that the
\* preview's percentage is 100 when every criterion is scored 5.
C29_PreviewTotalIsSubmittedTotal ==
    client.fn = "AssessmentForm" =>
        LET criteriaScores == client.args
            sum == SumOf([i \in 1..Len(criteriaScores) |-> criteriaScores[i].score],
                         1..Len(criteriaScores))
        IN  /\ client.out.submitted = sum
            /\ client.out.previewed = Finite(100 * sum)
            /\ (\A i \in 1..Len(criteriaScores) : criteriaScores[i].score = 5)
               => client.out.scorePercentage = Finite(100)

====
